---- MODULE Spec2Model ----
(***************************************************************************)
(* Model of the resumable reconciliation pipeline of gl_bonus_reconciler:  *)
(* the checkpoint store (engine/biaRecovery.py), the accumulator           *)
(* (engine/biaProcessor.py), the stage handlers of the orchestrator        *)
(* (engine/biaController.py) and the country loop of main (app_test.py).   *)
(*                                                                         *)
(* Python values kept in the checkpoint store are written as strings:      *)
(* False is "False", True is "True", the FS10N marker is "data_nonexist",  *)
(* messages are "" or a non-empty text.  Truthy(v) is Python's truth test. *)
(***************************************************************************)
EXTENDS Integers, Sequences, FiniteSets, TLC

VARIABLES
    file,       \* durable checkpoint file: [exists, data]
    ent,        \* biaRecovery._ent_states: [loaded, data]
    accum,      \* biaProcessor._accum: kind -> country -> entry
    bins,       \* binary cache files present in the temp directory
    exps,       \* export text files present in the temp directory
    pc,         \* position of main / of the handler being executed
    run,        \* locals of main: mode, countries, loop index, processed
    loc,        \* locals of the handler being executed
    lastOp,     \* the stage operation performed by the last step, if any
    abortedBy,  \* why the last run ended without reaching its return
    produced,   \* what the current country's iteration produced for the user
    faults,     \* outcomes other than the regular one since the store was cleared
    res,        \* outcome of the last accumulator call made through the API
    stored      \* accumulator keys stored through the API since the last clear

vars == <<file, ent, accum, bins, exps, pc, run, loc, lastOp, abortedBy,
          produced, faults, res, stored>>

----------------------------------------------------------------------------
(* Reconciliation rules (rules.yaml): two active countries.                *)

RuleOrder == <<"DE", "FR">>

Countries == {RuleOrder[n] : n \in 1..Len(RuleOrder)}

rules ==
    [c \in Countries |->
        IF c = "DE"
        THEN [company_code |-> "1001", accounts |-> <<1, 2>>]
        ELSE [company_code |-> "1072", accounts |-> <<3>>]]

Str(acc) == ToString(acc)

AccKeys(c) == {Str(rules[c].accounts[n]) : n \in 1..Len(rules[c].accounts)}

AccList(c) == [n \in 1..Len(rules[c].accounts) |-> Str(rules[c].accounts[n])]

PyFalse == "False"
PyTrue == "True"
DataNonexist == "data_nonexist"
NoAcc == "<None>"

Truthy(v) == v \notin {PyFalse, ""}

EmptyMap == [x \in {} |-> ""]

----------------------------------------------------------------------------
(* Checkpoint store: engine/biaRecovery.py                                 *)

NoStates == [loaded |-> FALSE, data |-> EmptyMap]

NoFile == [exists |-> FALSE, data |-> EmptyMap]

\* a dump that leaves the file empty
JsonFile_empty(states) == [exists |-> TRUE, data |-> EmptyMap]

\* json.dump of a mapping: the whole mapping replaces the file's content
JsonFile(states) == [exists |-> TRUE, data |-> states]

DefaultRecord(c) ==
    [reconciled |-> PyFalse,
     db_updated |-> PyFalse,
     info |-> PyFalse,
     fbl3n_data_exported |-> PyFalse,
     fbl3n_data_processed |-> PyFalse,
     se16_no_kona_data |-> PyFalse,
     se16_kona_data_exported |-> PyFalse,
     se16_kote_data_exported |-> PyFalse,
     se16_kona_data_processed |-> PyFalse,
     se16_kote_data_processed |-> PyFalse,
     zsd25_glob_data_exported |-> PyFalse,
     zsd25_glob_data_processed |-> PyFalse,
     zsd25_glob_data_calculated |-> PyFalse,
     zsd25_loc_data_exported |-> PyFalse,
     zsd25_loc_data_processed |-> PyFalse,
     zsd25_loc_data_calculated |-> PyFalse,
     zsd25_no_glob_data |-> PyFalse,
     yearly_summary_retrieved |-> PyFalse,
     text_summary_retrieved |-> [a \in AccKeys(c) |-> PyFalse],
     fs10n_data_exported |-> [a \in AccKeys(c) |-> PyFalse],
     fs10n_data_processed |-> [a \in AccKeys(c) |-> PyFalse],
     user_warning |-> "",
     user_error |-> ""]

\* reset_states that leaves the per-account flags without accounts
reset_states_without_accounts(countries) ==
    [c \in {countries[n] : n \in 1..Len(countries)} |->
        [DefaultRecord(c) EXCEPT !.text_summary_retrieved = EmptyMap,
                                 !.fs10n_data_exported = EmptyMap,
                                 !.fs10n_data_processed = EmptyMap]]

\* reset_states: default record for each country of the list
reset_states(countries) ==
    [c \in {countries[n] : n \in 1..Len(countries)} |-> DefaultRecord(c)]

\* clear_states: _ent_states = {} and the file is rewritten with it
clear_states_file == JsonFile(EmptyMap)

\* initialize: the file as it is left, and the states held in memory.
\* A missing file is first created empty; a non-empty record is taken as
\* it is; an empty one is replaced by the defaults of the given countries.
initialize_file(f, countries) ==
    LET f1 == IF f.exists THEN f ELSE clear_states_file
    IN  IF DOMAIN f1.data # {} THEN f1 ELSE JsonFile(reset_states(countries))

\* initialize_states that resets every country to its defaults
initialize_states_resetting(f, countries) ==
    [loaded |-> TRUE, data |-> reset_states(countries)]

initialize_states(f, countries) ==
    LET f1 == IF f.exists THEN f ELSE clear_states_file
    IN  IF DOMAIN f1.data # {}
        THEN [loaded |-> TRUE, data |-> f1.data]
        ELSE [loaded |-> TRUE, data |-> reset_states(countries)]

\* get_state raises KeyError for a country, key or account it does not hold
has_state(e, country, key, acc) ==
    /\ e.loaded
    /\ country \in DOMAIN e.data
    /\ key \in DOMAIN e.data[country]
    /\ acc # NoAcc => acc \in DOMAIN e.data[country][key]

get_state(e, country, key, acc) ==
    IF acc = NoAcc THEN e.data[country][key] ELSE e.data[country][key][acc]

\* save_state: the value is set in memory; the file is rewritten by the caller
\* with JsonFile of the result
save_state(e, country, key, val, acc) ==
    IF acc = NoAcc
    THEN [e EXCEPT !.data[country][key] = val]
    ELSE [e EXCEPT !.data[country][key] =
              [a \in DOMAIN e.data[country][key] \cup {acc} |->
                  IF a = acc THEN val ELSE e.data[country][key][a]]]

----------------------------------------------------------------------------
(* Accumulator: engine/biaProcessor.py                                     *)
(* An entry under _accum[kind][country] is None, a DataFrame (with the     *)
(* columns that were set on it through an account) or the dict of the      *)
(* values stored per account.  Stored values are "None" or a data tag.     *)

Kinds ==
    {"fbl3n_data", "text_summs", "check_text_summs", "kona_data", "kote_data",
     "loc_bonus_data", "glob_bonus_data", "glob_bonus_calcs", "loc_bonus_calcs",
     "glob_agreement_comparison", "loc_agreement_comparison", "loc_conditions",
     "fs10n_data", "final_summary", "yearly_acc_summ", "period_overview", "info"}

PyNone == "None"

EmptyAccum == [k \in Kinds |-> EmptyMap]

MkLeaf(data) ==
    IF data = PyNone
    THEN [py |-> "None", tag |-> "", items |-> EmptyMap]
    ELSE [py |-> "df", tag |-> data, items |-> EmptyMap]

MkDict(items) == [py |-> "dict", tag |-> "", items |-> items]

\* str(acc).isnumeric() on the account texts the model uses
MaxAccount == 9

IsNumeric(acc) == acc \in {Str(n) : n \in 0..MaxAccount}

SetItem(items, acc, data) ==
    [a \in DOMAIN items \cup {acc} |-> IF a = acc THEN data ELSE items[a]]

\* store_raises without the test that the account is already stored
store_raises_overwriting(acm, data, country, key, acc, colOk) ==
    \/ acc # NoAcc /\ ~IsNumeric(acc)
    \/ country \in DOMAIN acm[key] /\ acc = NoAcc
    \/ /\ country \in DOMAIN acm[key]
       /\ acc # NoAcc
       /\ \/ acm[key][country].py = "None"
          \/ acm[key][country].py = "df" /\ data # PyNone /\ ~colOk

\* store_to_accum raises (ValueError, RuntimeError, or the TypeError/ValueError
\* of the container found under the country); colOk tells whether a DataFrame
\* found under the country accepts the value as a new column
store_raises(acm, data, country, key, acc, colOk) ==
    \/ acc # NoAcc /\ ~IsNumeric(acc)
    \/ country \in DOMAIN acm[key] /\ acc = NoAcc
    \/ /\ country \in DOMAIN acm[key]
       /\ acc # NoAcc
       /\ \/ acm[key][country].py = "None"
          \/ acc \in DOMAIN acm[key][country].items
          \/ acm[key][country].py = "df" /\ data # PyNone /\ ~colOk

store_to_accum(acm, data, country, key, acc) ==
    IF acc = NoAcc
    THEN [acm EXCEPT ![key] = SetItem(acm[key], country, MkLeaf(data))]
    ELSE IF country \notin DOMAIN acm[key]
         THEN [acm EXCEPT ![key] =
                  SetItem(acm[key], country, MkDict(SetItem(EmptyMap, acc, data)))]
         ELSE [acm EXCEPT ![key] =
                  SetItem(acm[key], country,
                      [acm[key][country] EXCEPT
                          !.items = SetItem(acm[key][country].items, acc, data)])]

\* get_from_accum raises (ValueError, KeyError, TypeError)
get_raises(acm, country, key, acc) ==
    \/ acc # NoAcc /\ ~IsNumeric(acc)
    \/ country \notin DOMAIN acm[key]
    \/ /\ acc # NoAcc
       /\ country \in DOMAIN acm[key]
       /\ \/ acm[key][country].py = "None"
          \/ acc \notin DOMAIN acm[key][country].items

get_from_accum(acm, country, key, acc) ==
    IF acc = NoAcc
    THEN acm[key][country]
    ELSE MkLeaf(acm[key][country].items[acc])

\* clear: every kind's dict is emptied
clear_accum == EmptyAccum

----------------------------------------------------------------------------
(* Initial state: no checkpoint file, nothing in memory, no run started.   *)

NoOp == <<"", "", "", "">>

NoRun == [mode |-> "none", cntrs |-> <<>>, i |-> 0, processed |-> 0, failed |-> {}]

NoLoc == [j |-> 1, nth |-> 0]

NoRes ==
    [op |-> "none", country |-> "", key |-> "", acc |-> NoAcc,
     raised |-> FALSE, val |-> MkLeaf(PyNone)]

InitPipeline ==
    /\ file = NoFile
    /\ ent = NoStates
    /\ accum = EmptyAccum
    /\ bins = {}
    /\ exps = {}
    /\ pc = "stopped"
    /\ run = NoRun
    /\ loc = NoLoc
    /\ lastOp = NoOp
    /\ abortedBy = "none"
    /\ produced = {}
    /\ faults = 0
    /\ stored = {}

Init == InitPipeline /\ res = NoRes

----------------------------------------------------------------------------
(* The accumulator driven through its interface by arbitrary callers.      *)

AccumKinds == {"fs10n_data"}

AccumAccounts == {NoAcc, "1", "2", "x"}

AccumValues == {PyNone, "d1"}

pipelineVars ==
    <<file, ent, bins, exps, pc, run, loc, lastOp, abortedBy, produced, faults>>

Store(data, country, key, acc, colOk) ==
    /\ IF store_raises(accum, data, country, key, acc, colOk)
       THEN /\ res' = [op |-> "store", country |-> country, key |-> key,
                       acc |-> acc, raised |-> TRUE, val |-> MkLeaf(PyNone)]
            /\ UNCHANGED <<accum, stored>>
       ELSE /\ accum' = store_to_accum(accum, data, country, key, acc)
            /\ stored' = stored \cup {<<country, key, acc>>}
            /\ res' = [op |-> "store", country |-> country, key |-> key,
                       acc |-> acc, raised |-> FALSE, val |-> MkLeaf(data)]
    /\ UNCHANGED pipelineVars

Fetch(country, key, acc) ==
    /\ IF get_raises(accum, country, key, acc)
       THEN res' = [op |-> "fetch", country |-> country, key |-> key,
                    acc |-> acc, raised |-> TRUE, val |-> MkLeaf(PyNone)]
       ELSE res' = [op |-> "fetch", country |-> country, key |-> key,
                    acc |-> acc, raised |-> FALSE,
                    val |-> get_from_accum(accum, country, key, acc)]
    /\ UNCHANGED <<accum, stored>>
    /\ UNCHANGED pipelineVars

Clear ==
    /\ accum' = clear_accum
    /\ stored' = {}
    /\ res' = [NoRes EXCEPT !.op = "clear"]
    /\ UNCHANGED pipelineVars

AccumStore ==
    \E data \in AccumValues, country \in Countries, key \in AccumKinds,
       acc \in AccumAccounts, colOk \in BOOLEAN :
        Store(data, country, key, acc, colOk)

AccumFetch ==
    \E country \in Countries, key \in AccumKinds, acc \in AccumAccounts :
        Fetch(country, key, acc)

AccumClear == Clear

NextAccum == AccumStore \/ AccumFetch \/ AccumClear

SpecAccum == Init /\ [][NextAccum]_vars

ResKey(r) == <<r.country, r.key, r.acc>>

\* C3 (write-once part): a store on a key that was already stored since the
\* last clear raises, whatever the value, and leaves the accumulator as it was.
StoreOnce ==
    (res'.op = "store" /\ ResKey(res') \in stored) =>
        (res'.raised /\ accum' = accum)

StoredAccounts(country, key) ==
    {a \in AccumAccounts \ {NoAcc} : <<country, key, a>> \in stored}

----------------------------------------------------------------------------
(* The orchestrator.  A handler is an operator from the state before it to *)
(* the state after it; s is the record of the program's state.  Once an    *)
(* exception has left main (pc = "stopped") the rest of a handler has no   *)
(* effect.                                                                 *)

Now ==
    [file |-> file, ent |-> ent, accum |-> accum, bins |-> bins, exps |-> exps,
     pc |-> pc, run |-> run, loc |-> loc, lastOp |-> NoOp,
     abortedBy |-> abortedBy, produced |-> produced]

\* outcomes of the environment other than the regular ones (no data found,
\* SapRuntimeError, no rate within the days looked back, an exception of SAP,
\* of the database, of the portal, of a conversion or of a calculation, a
\* kill of the process) between two clears of the checkpoint store
MaxFaults == 2

Regular == {"ok", "rate", "warn"}

Assign(n) ==
    /\ file' = n.file
    /\ ent' = n.ent
    /\ accum' = n.accum
    /\ bins' = n.bins
    /\ exps' = n.exps
    /\ pc' = n.pc
    /\ run' = n.run
    /\ loc' = n.loc
    /\ lastOp' = n.lastOp
    /\ abortedBy' = n.abortedBy
    /\ produced' = n.produced
    /\ UNCHANGED <<res, stored>>

\* a step of main or of a handler that meets no failure
Apply(n) == Assign(n) /\ UNCHANGED faults

\* a step whose outcome is drawn from the environment; irregular tells that
\* the outcome drawn is not the regular one, which counts when the step
\* performs the operation and the operation takes that outcome
Inject(n, irregular) ==
    /\ Assign(n)
    /\ IF irregular /\ n.lastOp # NoOp /\ n.lastOp[3] \notin Regular
       THEN faults < MaxFaults /\ faults' = faults + 1
       ELSE faults' = faults

Live(s) == s.pc # "stopped"

Cntry(s) == s.run.cntrs[s.run.i]

\* the process ends: an uncaught exception, a crash or the return of main
Exit(s, cause) ==
    [s EXCEPT !.pc = "stopped", !.ent = NoStates, !.accum = EmptyAccum,
              !.run = NoRun, !.loc = NoLoc, !.abortedBy = cause,
              !.produced = {}]

Raise(s, cause) == IF Live(s) THEN Exit(s, cause) ELSE s

Goto(s, label) == IF Live(s) THEN [s EXCEPT !.pc = label] ELSE s

\* the stage operation a step performs on the current country (and account;
\* for reconcile the kind of the current day stands in the account's place)
OpAcc(s, name, outcome, acc) == [s EXCEPT !.lastOp = <<Cntry(s), name, outcome, acc>>]

Op(s, name, outcome) == OpAcc(s, name, outcome, NoAcc)

Get(s, key) == get_state(s.ent, Cntry(s), key, NoAcc)

GetAcc(s, key, acc) == get_state(s.ent, Cntry(s), key, acc)

\* rec.save_state: memory, then the file rewritten in full
Save(s, key, val, acc) ==
    IF ~Live(s) THEN s
    ELSE LET e == save_state(s.ent, Cntry(s), key, val, acc)
         IN  [s EXCEPT !.ent = e, !.file = JsonFile(e.data)]

RECURSIVE StoreAll(_, _, _)
StoreAll(acm, country, ops) ==
    IF ops = <<>> THEN [ok |-> TRUE, acm |-> acm]
    ELSE IF store_raises(acm, Head(ops)[1], country, Head(ops)[2], Head(ops)[3], FALSE)
         THEN [ok |-> FALSE, acm |-> acm]
         ELSE StoreAll(store_to_accum(acm, Head(ops)[1], country, Head(ops)[2], Head(ops)[3]),
                       country, Tail(ops))

\* proc.store_to_accum calls in sequence; ops are <<data, kind, account>>
Put(s, ops) ==
    IF ~Live(s) THEN s
    ELSE LET r == StoreAll(s.accum, Cntry(s), ops)
         IN  IF r.ok THEN [s EXCEPT !.accum = r.acm] ELSE Raise(s, "accum")

\* proc.get_from_accum
Fetched(s, key, acc) ==
    IF ~Live(s) THEN s
    ELSE IF get_raises(s.accum, Cntry(s), key, acc) THEN Raise(s, "accum") ELSE s

\* proc.get_from_accum whose result is used as a DataFrame: None raises
Need(s, key, acc, cause) ==
    IF ~Live(Fetched(s, key, acc)) THEN Fetched(s, key, acc)
    ELSE IF get_from_accum(s.accum, Cntry(s), key, acc).py = "None"
         THEN Raise(s, cause)
         ELSE s

BinFile(s, name, acc) == <<Cntry(s), name, acc>>

\* proc.store_to_binary
WriteBin(s, name, acc) ==
    IF ~Live(s) THEN s ELSE [s EXCEPT !.bins = @ \cup {BinFile(s, name, acc)}]

\* proc.read_binary_file raises when the cache file is missing
ReadBin(s, name, acc) ==
    IF ~Live(s) THEN s
    ELSE IF BinFile(s, name, acc) \in s.bins THEN s ELSE Raise(s, "cache")

WriteExp(s, name, acc) == [s EXCEPT !.exps = @ \cup {<<Cntry(s), name, acc>>}]

HasExp(s, name, acc) == <<Cntry(s), name, acc>> \in s.exps

\* main: 'continue' after a failed stage
Abandon(s) == Goto(s, "iter_end")

ExportFailed(s) ==
    IF ~Live(s) THEN s ELSE [s EXCEPT !.run.failed = @ \cup {Cntry(s)}]

----------------------------------------------------------------------------
(* main (app_test.py): start of a run, country loop, cleanup               *)

\* a scheduled run over the active countries, or a run requested by a user
\* mail for one company code
Modes == {"auto", "user"}

\* get_active_countries: all countries of the rules, or the one of the
\* company code given by the user
RunCountries(mode) ==
    IF mode = "auto" THEN {RuleOrder}
    ELSE {<<c>> : c \in Countries}

\* main up to the loop: rec.initialize, then the connections
main_start(s, mode, countries) ==
    [s EXCEPT !.file = initialize_file(s.file, countries),
              !.ent = initialize_states(s.file, countries),
              !.accum = EmptyAccum,
              !.run = [mode |-> mode, cntrs |-> countries, i |-> 1,
                       processed |-> 0, failed |-> {}],
              !.loc = NoLoc,
              !.abortedBy = "none",
              !.produced = {},
              !.pc = "loop"]

\* head of the loop: is_reconciled(cntry)
main_loop(s) ==
    IF ~has_state(s.ent, Cntry(s), "reconciled", NoAcc) THEN Raise(s, "recovery")
    ELSE IF Truthy(Get(s, "reconciled"))
         THEN [s EXCEPT !.run.i = @ + 1]
         ELSE Goto(s, "export_se16_kote_data")

\* end of one iteration of the loop
main_next(s) == [s EXCEPT !.run.i = @ + 1, !.produced = {}, !.pc = "loop",
                          !.loc = NoLoc]

\* after the loop: return 10 keeps the store and the temporary files
main_finish(s) ==
    IF s.run.processed = 0 /\ s.run.mode = "auto"
    THEN Exit(s, "none")
    ELSE Goto(s, "remove_temp_files")

remove_temp_files(s) == Goto([s EXCEPT !.bins = {}, !.exps = {}], "clear_recovery_states")

\* rec.clear, proc.clear and the return of main
clear_recovery_states(s) == Exit([s EXCEPT !.file = clear_states_file], "none")

StartRun ==
    /\ pc = "stopped"
    /\ \E mode \in Modes : \E countries \in RunCountries(mode) :
          Apply(main_start(Now, mode, countries))

LoopNext ==
    /\ pc = "loop"
    /\ run.i <= Len(run.cntrs)
    /\ Apply(main_loop(Now))

IterEnd ==
    /\ pc = "iter_end"
    /\ Apply(main_next(Now))

Finish ==
    /\ pc = "loop"
    /\ run.i > Len(run.cntrs)
    /\ Apply(main_finish(Now))

RemoveTempFiles ==
    /\ pc = "remove_temp_files"
    /\ Apply(remove_temp_files(Now))

ClearRecoveryStates ==
    /\ pc = "clear_recovery_states"
    /\ Assign(clear_recovery_states(Now))
    /\ faults' = 0

\* the process is killed at any point of a run
Crash ==
    /\ pc # "stopped"
    /\ faults < MaxFaults
    /\ Assign(Exit(Now, "crash"))
    /\ faults' = faults + 1

----------------------------------------------------------------------------
(* SE16 KOTE: export_se16_kote_data, process_se16_kote_data                *)

\* export_se16_kote_data without the test of the checkpoint
export_se16_kote_data_unchecked(s, out) ==
    IF out = "ok"
    THEN Goto(Save(WriteExp(Op(s, "export:kote", out), "kote", NoAcc),
                   "se16_kote_data_exported", PyTrue, NoAcc),
              "process_se16_kote_data")
    ELSE Abandon(ExportFailed(Op(s, "export:kote", out)))

export_se16_kote_data(s, out) ==
    IF Truthy(Get(s, "se16_kote_data_exported"))
    THEN Goto(s, "process_se16_kote_data")
    ELSE IF out = "ok"
         THEN Goto(Save(WriteExp(Op(s, "export:kote", out), "kote", NoAcc),
                        "se16_kote_data_exported", PyTrue, NoAcc),
                   "process_se16_kote_data")
         ELSE Abandon(ExportFailed(Op(s, "export:kote", out)))

\* up to store_to_binary
process_se16_kote_data(s, ok) ==
    IF Truthy(Get(s, "se16_kote_data_processed"))
    THEN Goto(Put(ReadBin(s, "kote", NoAcc), <<<<"df", "kote_data", NoAcc>>>>),
              "export_se16_kona_data")
    ELSE IF ok /\ HasExp(s, "kote", NoAcc)
         THEN Goto(WriteBin(Op(s, "convert:kote", "ok"), "kote", NoAcc),
                   "process_se16_kote_data_save")
         ELSE Raise(Op(s, "convert:kote", "raise"), "convert")

\* save_state without store_to_accum
process_se16_kote_data_save_unstored(s) ==
    Goto(Save(s, "se16_kote_data_processed", PyTrue, NoAcc), "export_se16_kona_data")

\* store_to_accum and save_state
process_se16_kote_data_save(s) ==
    Goto(Save(Put(s, <<<<"df", "kote_data", NoAcc>>>>),
              "se16_kote_data_processed", PyTrue, NoAcc),
         "export_se16_kona_data")

ExportKote ==
    /\ pc = "export_se16_kote_data"
    /\ \E out \in {"ok", "raise"} : Inject(export_se16_kote_data(Now, out), out \notin Regular)

ProcessKote ==
    /\ pc = "process_se16_kote_data"
    /\ \E ok \in BOOLEAN : Inject(process_se16_kote_data(Now, ok), ~ok)

ProcessKoteSave ==
    /\ pc = "process_se16_kote_data_save"
    /\ Apply(process_se16_kote_data_save(Now))

----------------------------------------------------------------------------
(* SE16 KONA: export_se16_kona_data, process_se16_kona_data                *)

export_se16_kona_data(s, out) ==
    LET s1 == Need(s, "kote_data", NoAcc, "agreements")
    IN  IF ~Live(s1) THEN s1
        ELSE IF Truthy(Get(s1, "se16_kona_data_exported"))
        THEN Goto(s1, "process_se16_kona_data")
        ELSE IF out = "nodata"
        THEN Goto(Save(Op(s1, "export:kona", out), "se16_no_kona_data", PyTrue, NoAcc),
                  "process_se16_kona_data")
        ELSE IF out = "ok"
        THEN Goto(Save(WriteExp(Op(s1, "export:kona", out), "kona", NoAcc),
                       "se16_kona_data_exported", PyTrue, NoAcc),
                  "process_se16_kona_data")
        ELSE Abandon(ExportFailed(Op(s1, "export:kona", out)))

process_se16_kona_data(s, ok) ==
    IF Truthy(Get(s, "se16_kona_data_processed"))
    THEN Goto(Put(ReadBin(s, "kona", NoAcc), <<<<"df", "kona_data", NoAcc>>>>),
              "export_zsd25_global_data")
    ELSE IF Truthy(Get(s, "se16_no_kona_data"))
    THEN Goto(Put(s, <<<<PyNone, "kona_data", NoAcc>>>>), "export_zsd25_global_data")
    ELSE IF ok /\ HasExp(s, "kona", NoAcc)
         THEN Goto(WriteBin(Op(s, "convert:kona", "ok"), "kona", NoAcc),
                   "process_se16_kona_data_save")
         ELSE Raise(Op(s, "convert:kona", "raise"), "convert")

process_se16_kona_data_save(s) ==
    Goto(Save(Put(s, <<<<"df", "kona_data", NoAcc>>>>),
              "se16_kona_data_processed", PyTrue, NoAcc),
         "export_zsd25_global_data")

ExportKona ==
    /\ pc = "export_se16_kona_data"
    /\ \E out \in {"ok", "nodata", "raise"} : Inject(export_se16_kona_data(Now, out), out \notin Regular)

ProcessKona ==
    /\ pc = "process_se16_kona_data"
    /\ \E ok \in BOOLEAN : Inject(process_se16_kona_data(Now, ok), ~ok)

ProcessKonaSave ==
    /\ pc = "process_se16_kona_data_save"
    /\ Apply(process_se16_kona_data_save(Now))

----------------------------------------------------------------------------
(* ZSD25 head quarter: export_zsd25_global_data, process_zsd25_global_data *)

\* 'exported' stays True whatever the export raises
export_zsd25_global_data(s, out) ==
    IF \/ Truthy(Get(s, "se16_no_kona_data"))
       \/ Truthy(Get(s, "zsd25_glob_data_exported"))
       \/ Truthy(Get(s, "zsd25_no_glob_data"))
    THEN Goto(s, "process_zsd25_global_data")
    ELSE LET s1 == Need(s, "kona_data", NoAcc, "agreements")
         IN  IF ~Live(s1) THEN s1
             ELSE IF out = "nodata"
             THEN Goto(Save(Op(s1, "export:glob", out), "zsd25_no_glob_data", PyTrue, NoAcc),
                       "process_zsd25_global_data")
             ELSE IF out = "ok"
             THEN Goto(Save(WriteExp(Op(s1, "export:glob", out), "glob", NoAcc),
                            "zsd25_glob_data_exported", PyTrue, NoAcc),
                       "process_zsd25_global_data")
             ELSE Goto(ExportFailed(Op(s1, "export:glob", out)),
                       "process_zsd25_global_data")

\* store_to_accum, then store_to_binary
process_zsd25_global_data(s, ok) ==
    IF Truthy(Get(s, "se16_no_kona_data")) \/ Truthy(Get(s, "zsd25_no_glob_data"))
    THEN Goto(Put(s, <<<<PyNone, "glob_bonus_data", NoAcc>>>>), "export_zsd25_local_data")
    ELSE IF Truthy(Get(s, "zsd25_glob_data_processed"))
    THEN Goto(Put(ReadBin(s, "glob", NoAcc), <<<<"df", "glob_bonus_data", NoAcc>>>>),
              "export_zsd25_local_data")
    ELSE IF ok /\ HasExp(s, "glob", NoAcc)
         THEN Goto(WriteBin(Put(Op(s, "convert:glob", "ok"),
                                <<<<"df", "glob_bonus_data", NoAcc>>>>), "glob", NoAcc),
                   "process_zsd25_global_data_save")
         ELSE Raise(Op(s, "convert:glob", "raise"), "convert")

process_zsd25_global_data_save(s) ==
    Goto(Save(s, "zsd25_glob_data_processed", PyTrue, NoAcc), "export_zsd25_local_data")

ExportGlob ==
    /\ pc = "export_zsd25_global_data"
    /\ \E out \in {"ok", "nodata", "raise"} : Inject(export_zsd25_global_data(Now, out), out \notin Regular)

ProcessGlob ==
    /\ pc = "process_zsd25_global_data"
    /\ \E ok \in BOOLEAN : Inject(process_zsd25_global_data(Now, ok), ~ok)

ProcessGlobSave ==
    /\ pc = "process_zsd25_global_data_save"
    /\ Apply(process_zsd25_global_data_save(Now))

----------------------------------------------------------------------------
(* ZSD25 local entity: export_zsd25_local_data, process_zsd25_local_data   *)

\* 'exported' stays True whatever the export raises
export_zsd25_local_data(s, out) ==
    IF Truthy(Get(s, "zsd25_loc_data_exported"))
    THEN Goto(s, "process_zsd25_local_data")
    ELSE IF out = "ok"
         THEN Goto(Save(WriteExp(Op(s, "export:loc", out), "loc", NoAcc),
                        "zsd25_loc_data_exported", PyTrue, NoAcc),
                   "process_zsd25_local_data")
         ELSE Goto(ExportFailed(Op(s, "export:loc", out)), "process_zsd25_local_data")

\* two store_to_accum, then two store_to_binary
process_zsd25_local_data(s, ok) ==
    IF Truthy(Get(s, "zsd25_loc_data_processed"))
    THEN Goto(Put(ReadBin(Put(ReadBin(s, "loc", NoAcc),
                              <<<<"df", "loc_bonus_data", NoAcc>>>>), "loc_cond", NoAcc),
                  <<<<"df", "loc_conditions", NoAcc>>>>),
              "export_fs10n_data")
    ELSE IF ok /\ HasExp(s, "loc", NoAcc)
         THEN Goto(WriteBin(WriteBin(Put(Op(s, "convert:loc", "ok"),
                                         <<<<"df", "loc_bonus_data", NoAcc>>,
                                           <<"df", "loc_conditions", NoAcc>>>>),
                                     "loc", NoAcc), "loc_cond", NoAcc),
                   "process_zsd25_local_data_save")
         ELSE Raise(Op(s, "convert:loc", "raise"), "convert")

process_zsd25_local_data_save(s) ==
    Goto(Save(s, "zsd25_loc_data_processed", PyTrue, NoAcc), "export_fs10n_data")

ExportLoc ==
    /\ pc = "export_zsd25_local_data"
    /\ \E out \in {"ok", "raise"} : Inject(export_zsd25_local_data(Now, out), out \notin Regular)

ProcessLoc ==
    /\ pc = "process_zsd25_local_data"
    /\ \E ok \in BOOLEAN : Inject(process_zsd25_local_data(Now, ok), ~ok)

ProcessLocSave ==
    /\ pc = "process_zsd25_local_data_save"
    /\ Apply(process_zsd25_local_data_save(Now))

----------------------------------------------------------------------------
(* FS10N: export_fs10n_data, process_fs10n_data (one account per step)     *)

Acc(s) == AccList(Cntry(s))[s.loc.j]

\* next account of the loop, or the handler that follows the loop
Advance(s, again, after) ==
    IF ~Live(s) THEN s
    ELSE IF s.loc.j < Len(AccList(Cntry(s)))
         THEN [s EXCEPT !.loc.j = @ + 1, !.pc = again]
         ELSE [s EXCEPT !.loc.j = 1, !.pc = after]

export_fs10n_data(s, out) ==
    IF GetAcc(s, "fs10n_data_exported", Acc(s)) = DataNonexist
    THEN Advance(s, "export_fs10n_data", "process_fs10n_data")
    ELSE IF Truthy(GetAcc(s, "fs10n_data_exported", Acc(s)))
    THEN Advance(s, "export_fs10n_data", "process_fs10n_data")
    ELSE IF out = "nodata"
    THEN Advance(Save(OpAcc(s, "export:fs10n", out, Acc(s)), "fs10n_data_exported",
                      DataNonexist, Acc(s)),
                 "export_fs10n_data", "process_fs10n_data")
    ELSE IF out = "ok"
    THEN Advance(Save(WriteExp(OpAcc(s, "export:fs10n", out, Acc(s)), "fs10n", Acc(s)),
                      "fs10n_data_exported", PyTrue, Acc(s)),
                 "export_fs10n_data", "process_fs10n_data")
    ELSE Abandon(ExportFailed(OpAcc(s, "export:fs10n", out, Acc(s))))

\* store_to_accum, then store_to_binary
process_fs10n_data(s, ok) ==
    IF GetAcc(s, "fs10n_data_exported", Acc(s)) = DataNonexist
    THEN Advance(Put(s, <<<<PyNone, "fs10n_data", Acc(s)>>>>),
                 "process_fs10n_data", "export_fbl3n_data")
    ELSE IF Truthy(GetAcc(s, "fs10n_data_processed", Acc(s)))
    THEN Advance(Put(ReadBin(s, "fs10n", Acc(s)), <<<<"df", "fs10n_data", Acc(s)>>>>),
                 "process_fs10n_data", "export_fbl3n_data")
    ELSE IF ok /\ HasExp(s, "fs10n", Acc(s))
         THEN Goto(WriteBin(Put(OpAcc(s, "convert:fs10n", "ok", Acc(s)),
                                <<<<"df", "fs10n_data", Acc(s)>>>>), "fs10n", Acc(s)),
                   "process_fs10n_data_save")
         ELSE Raise(OpAcc(s, "convert:fs10n", "raise", Acc(s)), "convert")

process_fs10n_data_save(s) ==
    Advance(Save(s, "fs10n_data_processed", PyTrue, Acc(s)),
            "process_fs10n_data", "export_fbl3n_data")

ExportFs10n ==
    /\ pc = "export_fs10n_data"
    /\ \E out \in {"ok", "nodata", "raise"} : Inject(export_fs10n_data(Now, out), out \notin Regular)

ProcessFs10n ==
    /\ pc = "process_fs10n_data"
    /\ \E ok \in BOOLEAN : Inject(process_fs10n_data(Now, ok), ~ok)

ProcessFs10nSave ==
    /\ pc = "process_fs10n_data_save"
    /\ Apply(process_fs10n_data_save(Now))

----------------------------------------------------------------------------
(* FBL3N: export_fbl3n_data (first attempt, retries), process_fbl3n_data   *)

NAttempts == 3

\* the first fbl3n.export and, unless it raised SapRuntimeError, the end of
\* the handler: nth is still 0 < n_attempts whatever else was raised
export_fbl3n_data(s, out) ==
    IF Truthy(Get(s, "fbl3n_data_exported"))
    THEN Goto(s, "process_fbl3n_data")
    ELSE IF out = "sap"
    THEN Goto([Op(s, "export:fbl3n", out) EXCEPT !.loc.nth = 0], "export_fbl3n_data_retry")
    ELSE IF out = "ok"
    THEN Goto(Save(WriteExp(Op(s, "export:fbl3n", out), "fbl3n", NoAcc),
                   "fbl3n_data_exported", PyTrue, NoAcc),
              "process_fbl3n_data")
    ELSE IF out = "nodata"
    THEN Goto(Save(Op(s, "export:fbl3n", out), "fbl3n_data_exported", PyTrue, NoAcc),
              "process_fbl3n_data")
    ELSE Goto(Save(ExportFailed(Op(s, "export:fbl3n", out)),
                   "fbl3n_data_exported", PyTrue, NoAcc),
              "process_fbl3n_data")

\* the retry loop with the test 'nth <= n_attempts'
export_fbl3n_data_retry_once_more(s, out) ==
    IF out = "ok"
    THEN Goto([Save(WriteExp(Op(s, "export:fbl3n", out), "fbl3n", NoAcc),
                    "fbl3n_data_exported", PyTrue, NoAcc) EXCEPT !.loc.nth = 0],
              "process_fbl3n_data")
    ELSE IF out = "sap"
    THEN IF s.loc.nth < NAttempts
         THEN [Op(s, "export:fbl3n", out) EXCEPT !.loc.nth = @ + 1]
         ELSE Abandon(ExportFailed(Op(s, "export:fbl3n", out)))
    ELSE Raise(ExportFailed(Op(s, "export:fbl3n", out)), "export")

\* one pass of 'while nth < n_attempts' inside the SapRuntimeError handler,
\* and the end of the handler when the loop is left
export_fbl3n_data_retry(s, out) ==
    IF out = "ok"
    THEN Goto([Save(WriteExp(Op(s, "export:fbl3n", out), "fbl3n", NoAcc),
                    "fbl3n_data_exported", PyTrue, NoAcc) EXCEPT !.loc.nth = 0],
              "process_fbl3n_data")
    ELSE IF out = "sap"
    THEN IF s.loc.nth + 1 < NAttempts
         THEN [Op(s, "export:fbl3n", out) EXCEPT !.loc.nth = @ + 1]
         ELSE Abandon(ExportFailed(Op(s, "export:fbl3n", out)))
    ELSE Raise(ExportFailed(Op(s, "export:fbl3n", out)), "export")

\* store_to_accum, then store_to_binary; a failed conversion returns False
process_fbl3n_data(s, ok) ==
    IF Truthy(Get(s, "fbl3n_data_processed"))
    THEN Goto(Put(ReadBin(s, "fbl3n", NoAcc), <<<<"df", "fbl3n_data", NoAcc>>>>),
              "process_fbl3n_data_db")
    ELSE IF ok /\ HasExp(s, "fbl3n", NoAcc)
         THEN Goto(WriteBin(Put(Op(s, "convert:fbl3n", "ok"),
                                <<<<"df", "fbl3n_data", NoAcc>>>>), "fbl3n", NoAcc),
                   "process_fbl3n_data_save")
         ELSE Goto(Op(s, "convert:fbl3n", "failed"), "iter_end")

process_fbl3n_data_save(s) ==
    Goto(Save(s, "fbl3n_data_processed", PyTrue, NoAcc), "process_fbl3n_data_db")

\* the database part of process_fbl3n_data
process_fbl3n_data_db(s, ok) ==
    IF Truthy(Get(s, "db_updated"))
    THEN Goto(s, "reconcile")
    ELSE IF ~ok
    THEN Goto(Op(s, "database", "failed"), "iter_end")
    ELSE Goto(Save(Fetched(Op(s, "database", "ok"), "fbl3n_data", NoAcc),
                   "db_updated", PyTrue, NoAcc),
              "reconcile")

ExportFbl3n ==
    /\ pc = "export_fbl3n_data"
    /\ \E out \in {"ok", "sap", "nodata", "raise"} : Inject(export_fbl3n_data(Now, out), out \notin Regular)

ExportFbl3nRetry ==
    /\ pc = "export_fbl3n_data_retry"
    /\ \E out \in {"ok", "sap", "raise"} : Inject(export_fbl3n_data_retry(Now, out), out = "raise")

ProcessFbl3n ==
    /\ pc = "process_fbl3n_data"
    /\ \E ok \in BOOLEAN : Inject(process_fbl3n_data(Now, ok), ~ok)

ProcessFbl3nSave ==
    /\ pc = "process_fbl3n_data_save"
    /\ Apply(process_fbl3n_data_save(Now))

ProcessFbl3nDb ==
    /\ pc = "process_fbl3n_data_db"
    /\ \E ok \in BOOLEAN : Inject(process_fbl3n_data_db(Now, ok), ~ok)

----------------------------------------------------------------------------
(* reconcile: acquisition of the exchange rate (biaController.py 1229-1299)*)
(* A scenario gives the portal's answer to the request for each day        *)
(* fx_rate_date - n, n = 0..MAX_PAST_DAYS, and to the request repeated     *)
(* with the extended timeout: a rate, None, TimeoutError, ResponseError or *)
(* another exception.                                                      *)

MAX_PAST_DAYS == 5

PortalAnswers == {"rate", "null", "timeout", "resperr", "other"}

FxScenarios == [day : [0..MAX_PAST_DAYS -> PortalAnswers], retry : PortalAnswers]

\* the first request and its handlers: "rate", "none" (fx_rate is None),
\* "fail" (return False) or "raise" (the exception leaves reconcile)
FxFirst(sc) ==
    CASE sc.day[0] = "rate" -> "rate"
      [] sc.day[0] = "null" -> "none"
      [] sc.day[0] = "resperr" -> "none"
      [] sc.day[0] = "other" -> "fail"
      [] sc.day[0] = "timeout" ->
            CASE sc.retry = "rate" -> "rate"
              [] sc.retry = "null" -> "none"
              [] OTHER -> "raise"

\* the loop 'while fx_rate is None and past_days <= MAX_PAST_DAYS'
RECURSIVE FxWalkBack(_, _, _)
FxWalkBack(sc, past_days, prev_day) ==
    IF past_days > MAX_PAST_DAYS
    THEN [out |-> "none", day |-> prev_day, src |-> prev_day]
    ELSE CASE sc.day[past_days] = "rate" ->
                [out |-> "rate", day |-> past_days, src |-> past_days]
           [] sc.day[past_days] = "null" ->
                FxWalkBack(sc, past_days + 1, past_days)
           [] sc.day[past_days] = "resperr" ->
                FxWalkBack(sc, past_days + 2, past_days)
           [] sc.day[past_days] = "other" ->
                [out |-> "fail", day |-> past_days, src |-> past_days]
           [] sc.day[past_days] = "timeout" ->
                CASE sc.retry = "rate" -> [out |-> "rate", day |-> past_days, src |-> 0]
                  [] sc.retry = "null" -> FxWalkBack(sc, past_days + 1, past_days)
                  [] OTHER -> [out |-> "raise", day |-> past_days, src |-> 0]

\* the walk-back taken whatever the kind of day
FxLadder_walking_back(sc, is_uplusone) ==
    LET first == FxFirst(sc)
        back == FxWalkBack(sc, 1, 0)
    IN  IF first # "none" THEN [out |-> first, day |-> 0, src |-> 0]
        ELSE IF back.out = "rate" THEN [back EXCEPT !.out = "warn"]
        ELSE IF back.out = "none" THEN [back EXCEPT !.out = "err"]
        ELSE back

\* out: "rate" (rate of the requested day), "warn" (rate of an earlier day,
\* user_warning saved), "err" (user_error saved, return False), "fail"
\* (return False) or "raise"; day: the day named in the warning; src: the day
\* whose rate was requested when the rate was obtained
FxLadder(sc, is_uplusone) ==
    LET first == FxFirst(sc)
        back == FxWalkBack(sc, 1, 0)
    IN  IF first # "none" THEN [out |-> first, day |-> 0, src |-> 0]
        ELSE IF is_uplusone THEN [out |-> "err", day |-> 0, src |-> 0]
        ELSE IF back.out = "rate" THEN [back EXCEPT !.out = "warn"]
        ELSE IF back.out = "none" THEN [back EXCEPT !.out = "err"]
        ELSE back

FxOutcomesUltimoPlusOne == {FxLadder(sc, TRUE).out : sc \in FxScenarios}

FxOutcomesOtherDay == {FxLadder(sc, FALSE).out : sc \in FxScenarios}

FxOutcomes(is_uplusone) ==
    IF is_uplusone THEN FxOutcomesUltimoPlusOne ELSE FxOutcomesOtherDay

Produce(s, what) == IF ~Live(s) THEN s ELSE [s EXCEPT !.produced = @ \cup {what}]

\* is_uplusone as the step records it with the operation
DayKind(is_uplusone) == IF is_uplusone THEN "ultimo+1" ELSE "other day"

\* reconcile up to line 1301; fx_given: the user's mail holds an exchange
\* rate ("fx_rate" in user_params), which only this step of a user's run reads
reconcile(s, fx_given, is_uplusone, out) ==
    LET day == DayKind(is_uplusone)
    IN  IF fx_given \/ out = "rate"
        THEN Goto(OpAcc(s, "reconcile", "rate", day), "reconcile_yearly")
        ELSE IF out = "warn"
        THEN Goto(Produce(Save(OpAcc(s, "reconcile", out, day),
                               "user_warning", "warning", NoAcc),
                          "warning"),
                  "reconcile_yearly")
        ELSE IF out = "err"
        THEN Goto(Produce(Save(OpAcc(s, "reconcile", out, day),
                               "user_error", "error", NoAcc),
                          "error"),
                  "send_notification_failed")
        ELSE IF out = "fail"
        THEN Goto(OpAcc(s, "reconcile", out, day), "send_notification_failed")
        ELSE Raise(OpAcc(s, "reconcile", out, day), "fx")

Reconcile ==
    /\ pc = "reconcile"
    /\ \E fx_given \in (IF run.mode = "user" THEN BOOLEAN ELSE {FALSE}) :
       \E is_uplusone \in BOOLEAN : \E out \in FxOutcomes(is_uplusone) :
          Inject(reconcile(Now, fx_given, is_uplusone, out), out \notin Regular)

----------------------------------------------------------------------------
(* reconcile: summaries from the database (lines 1319-1359)                *)

\* create_period_overview of the yearly summary, stored but not cached
PeriodOverview(s) ==
    Put(Fetched(s, "yearly_acc_summ", NoAcc), <<<<"df", "period_overview", NoAcc>>>>)

\* store_to_accum, then store_to_binary
reconcile_yearly(s, ok) ==
    IF Truthy(Get(s, "yearly_summary_retrieved"))
    THEN Goto(PeriodOverview(Put(ReadBin(s, "yearly", NoAcc),
                                 <<<<"df", "yearly_acc_summ", NoAcc>>>>)),
              "reconcile_text")
    ELSE IF ~ok
    THEN Goto(Op(s, "summary:yearly", "failed"), "send_notification_failed")
    ELSE Goto(WriteBin(Put(Op(s, "summary:yearly", "ok"),
                           <<<<"df", "yearly_acc_summ", NoAcc>>>>), "yearly", NoAcc),
              "reconcile_yearly_save")

reconcile_yearly_save(s) ==
    Goto(PeriodOverview(Save(s, "yearly_summary_retrieved", PyTrue, NoAcc)),
         "reconcile_text")

\* db.get_text_summary raises (return False), returns None (store_to_binary
\* then raises) or returns the summary, which is written to the cache
reconcile_text(s, out) ==
    IF Truthy(GetAcc(s, "text_summary_retrieved", Acc(s)))
    THEN Advance(Put(ReadBin(s, "text", Acc(s)), <<<<"df", "text_summs", Acc(s)>>>>),
                 "reconcile_text", "reconcile_hq")
    ELSE IF out = "raise"
    THEN Goto(OpAcc(s, "summary:text", "failed", Acc(s)), "send_notification_failed")
    ELSE IF out = "none"
    THEN Raise(OpAcc(s, "summary:text", "none", Acc(s)), "db")
    ELSE Goto(WriteBin(OpAcc(s, "summary:text", "ok", Acc(s)), "text", Acc(s)),
              "reconcile_text_save")

reconcile_text_save(s) ==
    Advance(Save(Put(s, <<<<"df", "text_summs", Acc(s)>>>>),
                 "text_summary_retrieved", PyTrue, Acc(s)),
            "reconcile_text", "reconcile_hq")

ReconcileYearly ==
    /\ pc = "reconcile_yearly"
    /\ \E ok \in BOOLEAN : Inject(reconcile_yearly(Now, ok), ~ok)

ReconcileYearlySave ==
    /\ pc = "reconcile_yearly_save"
    /\ Apply(reconcile_yearly_save(Now))

ReconcileText ==
    /\ pc = "reconcile_text"
    /\ \E out \in {"ok", "none", "raise"} : Inject(reconcile_text(Now, out), out \notin Regular)

ReconcileTextSave ==
    /\ pc = "reconcile_text_save"
    /\ Apply(reconcile_text_save(Now))

----------------------------------------------------------------------------
(* reconcile: calculations (lines 1361-1439)                               *)

\* head quarter calculation up to save_state, which precedes the cache;
\* an exception of the calculation leaves reconcile and main
reconcile_hq(s, ok) ==
    IF Truthy(Get(s, "zsd25_no_glob_data")) \/ Truthy(Get(s, "se16_no_kona_data"))
    THEN Goto(Put(s, <<<<PyNone, "glob_bonus_calcs", NoAcc>>>>), "reconcile_le")
    ELSE IF Truthy(Get(s, "zsd25_glob_data_calculated"))
    THEN Goto(Put(ReadBin(s, "glob_calc", NoAcc), <<<<"df", "glob_bonus_calcs", NoAcc>>>>),
              "reconcile_le")
    ELSE IF ~ok
    THEN Raise(Op(s, "calculate:hq", "raise"), "calc")
    ELSE Goto(Save(Need(Fetched(Op(s, "calculate:hq", "ok"), "text_summs", NoAcc),
                        "glob_bonus_data", NoAcc, "calc"),
                   "zsd25_glob_data_calculated", PyTrue, NoAcc),
              "reconcile_hq_store")

\* store_to_accum, then store_to_binary
reconcile_hq_store(s) ==
    Goto(WriteBin(Put(s, <<<<"df", "glob_bonus_calcs", NoAcc>>>>), "glob_calc", NoAcc),
         "reconcile_le")

\* consolidate_zsd25_data subscripts both calculations
Consolidated(s) ==
    IF ~Live(s) THEN s
    ELSE IF rules[Cntry(s)].company_code = "1001"
         THEN Put(Need(s, "glob_bonus_calcs", NoAcc, "calc"),
                  <<<<"df", "glob_agreement_comparison", NoAcc>>,
                    <<"df", "loc_agreement_comparison", NoAcc>>>>)
         ELSE Put(s, <<<<PyNone, "glob_agreement_comparison", NoAcc>>,
                       <<PyNone, "loc_agreement_comparison", NoAcc>>>>)

\* local calculation and consolidation up to save_state, which precedes the cache
reconcile_le(s, ok) ==
    IF Truthy(Get(s, "zsd25_loc_data_calculated"))
    THEN Goto(Save(Consolidated(ReadBin(s, "loc_calc", NoAcc)),
                   "zsd25_loc_data_calculated", PyTrue, NoAcc),
              "reconcile_le_store")
    ELSE IF ~ok
    THEN Raise(Op(s, "calculate:le", "raise"), "calc")
    ELSE Goto(Save(Consolidated(Need(Fetched(Op(s, "calculate:le", "ok"),
                                             "text_summs", NoAcc),
                                     "loc_bonus_data", NoAcc, "calc")),
                   "zsd25_loc_data_calculated", PyTrue, NoAcc),
              "reconcile_le_store")

\* store_to_binary and the rest of reconcile: checks, summary, info
reconcile_le_store(s) ==
    LET s1 == Put(WriteBin(s, "loc_calc", NoAcc), <<<<"df", "loc_bonus_calcs", NoAcc>>>>)
        s2 == Put(Fetched(Need(Fetched(s1, "text_summs", NoAcc),
                               "loc_bonus_data", NoAcc, "calc"),
                          "glob_bonus_data", NoAcc),
                  <<<<"df", "check_text_summs", NoAcc>>>>)
        s3 == Put(Need(Fetched(Need(Fetched(s2, "check_text_summs", NoAcc),
                                    "loc_bonus_calcs", NoAcc, "calc"),
                               "glob_bonus_calcs", NoAcc),
                       "fs10n_data", NoAcc, "calc"),
                  <<<<"df", "final_summary", NoAcc>>>>)
    IN  Goto(Put(WriteBin(s3, "summary", NoAcc), <<<<"df", "info", NoAcc>>>>),
             "generate_report")

ReconcileHq ==
    /\ pc = "reconcile_hq"
    /\ \E ok \in BOOLEAN : Inject(reconcile_hq(Now, ok), ~ok)

ReconcileHqStore ==
    /\ pc = "reconcile_hq_store"
    /\ Apply(reconcile_hq_store(Now))

ReconcileLe ==
    /\ pc = "reconcile_le"
    /\ \E ok \in BOOLEAN : Inject(reconcile_le(Now, ok), ~ok)

ReconcileLeStore ==
    /\ pc = "reconcile_le_store"
    /\ Apply(reconcile_le_store(Now))

----------------------------------------------------------------------------
(* generate_report, send_notification, set_completed                       *)

ReportKinds ==
    {"kote_data", "kona_data", "glob_bonus_data", "loc_bonus_data",
     "loc_bonus_calcs", "loc_conditions", "glob_bonus_calcs", "final_summary",
     "period_overview", "check_text_summs", "glob_agreement_comparison",
     "loc_agreement_comparison", "info"}

\* every exception is caught and turned into False; on True main counts the
\* country as processed
generate_report(s, ok) ==
    IF \/ \E k \in ReportKinds : get_raises(s.accum, Cntry(s), k, NoAcc)
       \/ ~ok
    THEN Goto(Op(s, "report", "failed"), "iter_end")
    ELSE Goto([Produce(Op(s, "report", "ok"), "report") EXCEPT !.run.processed = @ + 1],
              "send_notification")

\* the messages read from the store when no user parameters are passed,
\* and the assertion on them
send_notification(s, with_user_params, after) ==
    IF /\ ~with_user_params
       /\ Get(s, "user_warning") # ""
       /\ Get(s, "user_error") # ""
    THEN Raise(Op(s, "notify", "assert"), "assert")
    ELSE Goto(Op(s, "notify", "sent"), after)

set_completed(s) == Goto(Save(s, "reconciled", PyTrue, NoAcc), "iter_end")

GenerateReport ==
    /\ pc = "generate_report"
    /\ \E ok \in BOOLEAN : Inject(generate_report(Now, ok), ~ok)

\* main line 210: the user parameters of the run are passed
SendNotification ==
    /\ pc = "send_notification"
    /\ Apply(send_notification(Now, run.mode # "auto", "set_completed"))

\* main line 202: no user parameters are passed
SendNotificationFailed ==
    /\ pc = "send_notification_failed"
    /\ Apply(send_notification(Now, FALSE, "iter_end"))

SetCompleted ==
    /\ pc = "set_completed"
    /\ Apply(set_completed(Now))

----------------------------------------------------------------------------

Next ==
    \/ StartRun \/ LoopNext \/ IterEnd \/ Finish
    \/ RemoveTempFiles \/ ClearRecoveryStates \/ Crash
    \/ ExportKote \/ ProcessKote \/ ProcessKoteSave
    \/ ExportKona \/ ProcessKona \/ ProcessKonaSave
    \/ ExportGlob \/ ProcessGlob \/ ProcessGlobSave
    \/ ExportLoc \/ ProcessLoc \/ ProcessLocSave
    \/ ExportFs10n \/ ProcessFs10n \/ ProcessFs10nSave
    \/ ExportFbl3n \/ ExportFbl3nRetry
    \/ ProcessFbl3n \/ ProcessFbl3nSave \/ ProcessFbl3nDb
    \/ Reconcile \/ ReconcileYearly \/ ReconcileYearlySave
    \/ ReconcileText \/ ReconcileTextSave
    \/ ReconcileHq \/ ReconcileHqStore \/ ReconcileLe \/ ReconcileLeStore
    \/ GenerateReport \/ SendNotification \/ SendNotificationFailed
    \/ SetCompleted

Spec == Init /\ [][Next]_vars

----------------------------------------------------------------------------
(* Properties of the pipeline                                              *)

Recorded(c) == c \in DOMAIN file.data

\* the checkpoint of a country as the durable store holds it
Flag(c, key) == Recorded(c) /\ Truthy(file.data[c][key])

FlagAcc(c, key, a) ==
    /\ Recorded(c)
    /\ a \in DOMAIN file.data[c][key]
    /\ Truthy(file.data[c][key][a])

\* the export operation of a stage and the flag that records it
ExportStages ==
    {<<"export:kote", "se16_kote_data_exported">>,
     <<"export:kona", "se16_kona_data_exported">>,
     <<"export:glob", "zsd25_glob_data_exported">>,
     <<"export:loc", "zsd25_loc_data_exported">>,
     <<"export:fbl3n", "fbl3n_data_exported">>}

ExportOps == {st[1] : st \in ExportStages} \cup {"export:fs10n"}

Exports(c, op) == lastOp'[1] = c /\ lastOp'[2] = op

\* C1: once the 'exported' flag of an export stage of a country is true in
\* the store, no step invokes that stage's export for the country again (for
\* FS10N: for the flagged account), and no export at all is invoked for a
\* country whose 'reconciled' flag is true.
SkipOnResume ==
    [][\A c \in Countries :
          /\ \A st \in ExportStages : Flag(c, st[2]) => ~Exports(c, st[1])
          /\ \A a \in AccKeys(c) :
                FlagAcc(c, "fs10n_data_exported", a) =>
                    ~(Exports(c, "export:fs10n") /\ lastOp'[4] = a)
          /\ Flag(c, "reconciled") => \A op \in ExportOps : ~Exports(c, op)]_vars

\* a resumed run has passed the KOTE export of a country, whose flag it
\* found set, without exporting
SkipOnResumeWitness ==
    /\ pc = "process_se16_kote_data"
    /\ lastOp = NoOp
    /\ Flag(Cntry(Now), "se16_kote_data_exported")

\* the flag of a stage and the cache file the stage writes
CachedStages ==
    {<<"fbl3n_data_processed", "fbl3n">>,
     <<"se16_kote_data_processed", "kote">>,
     <<"se16_kona_data_processed", "kona">>,
     <<"zsd25_loc_data_processed", "loc">>,
     <<"zsd25_glob_data_processed", "glob">>,
     <<"yearly_summary_retrieved", "yearly">>,
     <<"zsd25_glob_data_calculated", "glob_calc">>,
     <<"zsd25_loc_data_calculated", "loc_calc">>}

CachedAccountStages ==
    {<<"fs10n_data_processed", "fs10n">>, <<"text_summary_retrieved", "text">>}

\* C2: in every reachable state, a flag of a caching stage that is true in
\* the store implies that the stage's cache file exists.
EffectBeforeFlag ==
    \A c \in Countries :
        /\ \A st \in CachedStages : Flag(c, st[1]) => <<c, st[2], NoAcc>> \in bins
        /\ \A st \in CachedAccountStages : \A a \in AccKeys(c) :
              FlagAcc(c, st[1], a) => <<c, st[2], a>> \in bins

\* C4: once no-data is recorded for a dataset of a country (KONA, head
\* quarter ZSD25, an FS10N account), no step invokes that dataset's export
\* for the country again.
NoDataNotRetried ==
    [][\A c \in Countries :
          /\ Flag(c, "se16_no_kona_data") => ~Exports(c, "export:kona")
          /\ Flag(c, "zsd25_no_glob_data") => ~Exports(c, "export:glob")
          /\ \A a \in AccKeys(c) :
                (Recorded(c) /\ file.data[c]["fs10n_data_exported"][a] = DataNonexist)
                    => ~(Exports(c, "export:fs10n") /\ lastOp'[4] = a)]_vars

\* C5: after the export of a data source has raised for a country, no later
\* stage operation is performed for that country in the run, and the failure
\* does not end the run.
ExportFailureAbandons ==
    [][/\ \A c \in run.failed : lastOp'[1] # c
       /\ abortedBy' # "export"]_vars

\* C6: a failed conversion or calculation never ends the run.
StageErrorsSkipCountry == abortedBy \notin {"convert", "calc"}

\* C7: no country has both a non-empty user_warning and a non-empty
\* user_error in the store, and the assertion of send_notification never fails.
WarningErrorExclusive ==
    /\ \A c \in Countries :
          Recorded(c) =>
              ~(file.data[c]["user_warning"] # "" /\ file.data[c]["user_error"] # "")
    /\ abortedBy # "assert"

\* C8: at the end of the iteration of a country, exactly one of a report, a
\* recorded warning or a recorded error has been produced.
OneOutcomePerCountry == pc = "iter_end" => Cardinality(produced) = 1

\* C9: the store is emptied only by a run all of whose countries are
\* recorded as reconciled.
ClearedOnlyAfterFullSuccess ==
    [][(DOMAIN file.data # {} /\ DOMAIN file'.data = {}) =>
          \A n \in 1..Len(run.cntrs) : Flag(run.cntrs[n], "reconciled")]_vars

\* C10: a run that starts on a durable record holding at least one country
\* leaves the record as it is and holds the same states in memory.
ResumeLoadsVerbatim ==
    [][(pc = "stopped" /\ pc' # "stopped" /\ DOMAIN file.data # {}) =>
          (file' = file /\ ent'.loaded /\ ent'.data = file.data)]_vars

\* a run has just started on a record that differs from the defaults, and
\* holds it in memory as it is on disk
ResumeLoadsVerbatimWitness ==
    /\ pc = "loop"
    /\ run.i = 1
    /\ ent.loaded
    /\ ent.data = file.data
    /\ \E c \in DOMAIN file.data : file.data[c] # DefaultRecord(c)

BooleanFlags ==
    {"reconciled", "db_updated", "info", "fbl3n_data_exported",
     "fbl3n_data_processed", "se16_no_kona_data", "se16_kona_data_exported",
     "se16_kote_data_exported", "se16_kona_data_processed",
     "se16_kote_data_processed", "zsd25_glob_data_exported",
     "zsd25_glob_data_processed", "zsd25_glob_data_calculated",
     "zsd25_loc_data_exported", "zsd25_loc_data_processed",
     "zsd25_loc_data_calculated", "zsd25_no_glob_data", "yearly_summary_retrieved"}

AccountFlags == {"text_summary_retrieved", "fs10n_data_exported", "fs10n_data_processed"}

\* a record whose flags are all false, with a sub-flag for each configured
\* account of the country, and whose messages are empty
AllFalse(c, rec) ==
    /\ DOMAIN rec = BooleanFlags \cup AccountFlags \cup {"user_warning", "user_error"}
    /\ \A k \in BooleanFlags : rec[k] = PyFalse
    /\ \A k \in AccountFlags :
          /\ DOMAIN rec[k] = {ToString(rules[c].accounts[n]) : n \in 1..Len(rules[c].accounts)}
          /\ \A a \in DOMAIN rec[k] : rec[k][a] = PyFalse
    /\ rec["user_warning"] = ""
    /\ rec["user_error"] = ""

\* C11: a run that starts without a durable record, or on the empty mapping
\* left by clear, persists a record for exactly the countries of the run, in
\* which every flag and every per-account sub-flag is false and the messages
\* are empty, and holds it in memory.
FreshStartDefaults ==
    [][(pc = "stopped" /\ pc' # "stopped" /\ DOMAIN file.data = {}) =>
          /\ file'.exists
          /\ DOMAIN file'.data = {run'.cntrs[n] : n \in 1..Len(run'.cntrs)}
          /\ \A c \in DOMAIN file'.data : AllFalse(c, file'.data[c])
          /\ ent'.loaded
          /\ ent'.data = file'.data]_vars

\* a run over both countries has just started on no record, or on the empty
\* mapping left by a clear, and the defaults of both countries are on disk
FreshStartDefaultsWitness ==
    /\ pc = "loop"
    /\ run.i = 1
    /\ run.cntrs = RuleOrder
    /\ faults = 0
    /\ DOMAIN file.data = Countries
    /\ \A c \in Countries : AllFalse(c, file.data[c])
    /\ bins = {}

----------------------------------------------------------------------------
(* The checkpoint store driven through its interface by arbitrary callers. *)
(* save_state is called as the orchestrator calls it: with an account for  *)
(* the per-account flags only, and without one for the other keys only.    *)

RecCountryLists == {<<>>, <<"DE">>, <<"FR">>, <<"DE", "FR">>}

RecCountries == Countries \cup {"XX"}

RecKeys == {"reconciled", "fs10n_data_exported"}

RecValues == {PyTrue, DataNonexist}

RecAccounts == {NoAcc, "1", "3"}

recoveryFrame ==
    <<accum, bins, exps, pc, run, loc, lastOp, abortedBy, produced, faults, stored>>

RecRes(op, raised) == [NoRes EXCEPT !.op = op, !.raised = raised]

\* save_state raises: _ent_states is None (TypeError), the country is not in
\* the states (KeyError), or an account is given for a key that holds no dict
save_raises(e, country, key, acc) ==
    \/ ~e.loaded
    \/ country \notin DOMAIN e.data
    \/ acc # NoAcc /\ key \notin AccountFlags

\* initialize raises ValueError on an empty list before it touches anything
RecInitialize ==
    /\ \E countries \in RecCountryLists :
          IF Len(countries) = 0
          THEN res' = RecRes("initialize", TRUE) /\ UNCHANGED <<file, ent>>
          ELSE /\ file' = initialize_file(file, countries)
               /\ ent' = initialize_states(file, countries)
               /\ res' = RecRes("initialize", FALSE)
    /\ UNCHANGED recoveryFrame

RecSaveState ==
    /\ \E country \in RecCountries, key \in RecKeys, val \in RecValues,
          acc \in RecAccounts :
          /\ acc = NoAcc => key \notin AccountFlags
          /\ IF save_raises(ent, country, key, acc)
             THEN res' = RecRes("save_state", TRUE) /\ UNCHANGED <<file, ent>>
             ELSE /\ ent' = save_state(ent, country, key, val, acc)
                  /\ file' = JsonFile(save_state(ent, country, key, val, acc).data)
                  /\ res' = RecRes("save_state", FALSE)
    /\ UNCHANGED recoveryFrame

\* before initialize, and after clear, _rec_path is None and open raises;
\* _ent_states is then left {} on which save_state raises as it does on None
RecClearStates ==
    /\ IF ~ent.loaded
       THEN res' = RecRes("clear_states", TRUE) /\ UNCHANGED <<file, ent>>
       ELSE /\ ent' = [loaded |-> TRUE, data |-> EmptyMap]
            /\ file' = clear_states_file
            /\ res' = RecRes("clear_states", FALSE)
    /\ UNCHANGED recoveryFrame

\* clear: clear_states, then _rec_path = None and _ent_states = None
RecClear ==
    /\ IF ~ent.loaded
       THEN res' = RecRes("clear", TRUE) /\ UNCHANGED <<file, ent>>
       ELSE /\ ent' = NoStates
            /\ file' = clear_states_file
            /\ res' = RecRes("clear", FALSE)
    /\ UNCHANGED recoveryFrame

NextRecovery == RecInitialize \/ RecSaveState \/ RecClearStates \/ RecClear

SpecRecovery == Init /\ [][NextRecovery]_vars

Completed(ops) == res.op \in ops /\ ~res.raised

InMemoryIsDurable == ent.loaded /\ file.exists /\ file.data = ent.data

\* C12 as stated: after every completed initialize, save_state, clear_states
\* or clear, the content of the durable file equals the in-memory state.
DurableEqualsMemoryAsStated ==
    Completed({"initialize", "save_state", "clear_states", "clear"}) => InMemoryIsDurable

\* C12 amended: after every completed initialize, save_state or clear_states
\* the content of the durable file equals the in-memory state; after a
\* completed clear the file holds the empty mapping and no state is held in
\* memory.
DurableEqualsMemory ==
    /\ Completed({"initialize", "save_state", "clear_states"}) => InMemoryIsDurable
    /\ Completed({"clear"}) => (~ent.loaded /\ file.exists /\ DOMAIN file.data = {})

\* a save_state with an account has completed on a record of two countries,
\* and its value is on disk
DurableEqualsMemoryWitness ==
    /\ Completed({"save_state"})
    /\ DOMAIN file.data = Countries
    /\ file.data["FR"]["fs10n_data_exported"]["3"] = DataNonexist
    /\ file.data["DE"]["reconciled"] = PyTrue

----------------------------------------------------------------------------
(* The exchange-rate ladder of reconcile on every course of the portal's   *)
(* answers: res holds the answers, the kind of day and the ladder's result *)

NoLadder == [out |-> "", day |-> 0, src |-> 0]

InitFx ==
    /\ InitPipeline
    /\ \E sc \in FxScenarios, is_uplusone \in BOOLEAN :
          res = [op |-> "none", sc |-> sc, is_uplusone |-> is_uplusone,
                 ladder |-> NoLadder]

FxReconcile ==
    /\ res.op = "none"
    /\ res' = [res EXCEPT !.op = "reconcile",
                          !.ladder = FxLadder(res.sc, res.is_uplusone)]
    /\ UNCHANGED <<file, ent>>
    /\ UNCHANGED recoveryFrame

NextFx == FxReconcile

SpecFx == InitFx /\ [][NextFx]_vars

\* the portal has no rate for the day: get_exchange_rate returns None, or the
\* response is not ok (ResponseError)
NoRatePublished == {"null", "resperr"}

\* C13: when the portal answers that no rate is published for the requested
\* date and the day is not an ultimo-plus-one day, the days before are tried
\* newest first, each of the five until one has a rate: the rate of the most
\* recent earlier day with a published rate is used, and the warning names
\* that day.
WalkBackUsesMostRecentDay ==
    (res.op = "reconcile" /\ ~res.is_uplusone /\ res.sc.day[0] = "null") =>
        \A d \in 1..MAX_PAST_DAYS :
            (/\ res.sc.day[d] = "rate"
             /\ \A e \in 1..(d - 1) : res.sc.day[e] \in NoRatePublished)
            => res.ladder = [out |-> "warn", day |-> d, src |-> d]

\* C15: when the first request times out and the request with the extended
\* timeout times out as well or finds no rate published, no exception leaves
\* reconcile.
TimeoutNeverEscapes ==
    (/\ res.op = "reconcile"
     /\ res.sc.day[0] = "timeout"
     /\ res.sc.retry \in {"timeout", "null"})
    => res.ladder.out # "raise"

----------------------------------------------------------------------------

CalculationFlags == {"zsd25_glob_data_calculated", "zsd25_loc_data_calculated"}

\* the step performs reconcile for country c on an ultimo-plus-one day
ReconcilesOnUltimoPlusOne(c) ==
    lastOp'[1] = c /\ lastOp'[2] = "reconcile" /\ lastOp'[4] = DayKind(TRUE)

----------------------------------------------------------------------------
(* The calculations of biaProcessor on tables of bounded size. A table is  *)
(* a sequence of rows, a row a record of the columns the calculation reads *)
(* or writes. Amounts and rates are whole numbers (1 stands for the rate   *)
(* 1.0), so round(2) changes nothing; a missing text value is NA, a        *)
(* nullable number is <<>> when missing and <<n>> otherwise.               *)

NA == "<NA>"

MaxRows == 2

SeqsUpTo(S, n) == UNION {[1..k -> S] : k \in 0..n}

Currencies == {"EUR", "CZK"}

Rates == {1, 2, 25}

RECURSIVE SumSeq(_)
SumSeq(ns) == IF ns = <<>> THEN 0 ELSE Head(ns) + SumSeq(Tail(ns))

RECURSIVE SumOver(_, _)
SumOver(f, keys) ==
    IF keys = {} THEN 0
    ELSE LET k == CHOOSE x \in keys : TRUE IN f[k] + SumOver(f, keys \ {k})

RECURSIVE Select(_, _, _)
\* the rows of a table at the positions of a mask, in their order
Select(rows, mask, i) ==
    IF i > Len(rows) THEN <<>>
    ELSE (IF mask[i] THEN <<rows[i]>> ELSE <<>>) \o Select(rows, mask, i + 1)

\* ~Series.duplicated(): the first row of each value
NotDuplicated(rows) ==
    [i \in 1..Len(rows) |-> \A j \in 1..(i - 1) : rows[j].Agreement # rows[i].Agreement]

\* DataFrame.drop_duplicates(subset = "Agreement")
drop_duplicates(rows) == Select(rows, NotDuplicated(rows), 1)

\* groupby("Agreement").sum() of the text subtotals, merged from the left
\* and filled with 0 where the agreement has no subtotal
AgreementSum(txt_summ, agreement) ==
    SumSeq([i \in 1..Len(txt_summ) |->
               IF txt_summ[i].Agreement = agreement
               THEN txt_summ[i].LC_Amount_Sum ELSE 0])

----------------------------------------------------------------------------
(* calculate_le_bonus_data                                                 *)

\* the correction applied whatever the currency of the agreement
calculate_le_bonus_data_any_currency(txt_summs, le_data, loc_curr, ex_rate) ==
    LET deduped == drop_duplicates(le_data)
    IN  [i \in 1..Len(deduped) |->
            LET row == deduped[i]
                corr == row.Open_Accruals * ex_rate - row.Open_Accruals
                sums == [acc \in DOMAIN txt_summs |->
                            AgreementSum(txt_summs[acc], row.Agreement)]
            IN  [Agreement |-> row.Agreement, Currency |-> row.Currency,
                 Open_Accruals |-> row.Open_Accruals,
                 Corr_to_LC |-> corr,
                 LC_Open_Accr |-> row.Open_Accruals + corr,
                 sums |-> sums,
                 Difference |-> SumOver(sums, DOMAIN sums) - (row.Open_Accruals + corr)]]

calculate_le_bonus_data(txt_summs, le_data, loc_curr, ex_rate) ==
    LET deduped == drop_duplicates(le_data)
    IN  [i \in 1..Len(deduped) |->
            LET row == deduped[i]
                corr == IF ex_rate # 1 /\ row.Currency # loc_curr
                        THEN row.Open_Accruals * ex_rate - row.Open_Accruals
                        ELSE 0
                sums == [acc \in DOMAIN txt_summs |->
                            AgreementSum(txt_summs[acc], row.Agreement)]
            IN  [Agreement |-> row.Agreement, Currency |-> row.Currency,
                 Open_Accruals |-> row.Open_Accruals,
                 Corr_to_LC |-> corr,
                 LC_Open_Accr |-> row.Open_Accruals + corr,
                 sums |-> sums,
                 Difference |-> SumOver(sums, DOMAIN sums) - (row.Open_Accruals + corr)]]

LeAgreements == {"A1", "A2"}

LeRows == [Agreement : LeAgreements, Currency : Currencies,
           Open_Accruals : {0, 1000, -40}]

LeTxtSumms ==
    [{"1"} -> SeqsUpTo([Agreement : {"A1", NA}, LC_Amount_Sum : {0, 500}], 1)]

InitLe ==
    /\ InitPipeline
    /\ \E txt_summs \in LeTxtSumms, le_data \in SeqsUpTo(LeRows, MaxRows),
          loc_curr \in Currencies, ex_rate \in Rates :
          res = [op |-> "none", txt_summs |-> txt_summs, le_data |-> le_data,
                 loc_curr |-> loc_curr, ex_rate |-> ex_rate, val |-> <<>>]

CalculateLe ==
    /\ res.op = "none"
    /\ res' = [res EXCEPT !.op = "calculate_le_bonus_data",
                          !.val = calculate_le_bonus_data(res.txt_summs, res.le_data,
                                                          res.loc_curr, res.ex_rate)]
    /\ UNCHANGED <<file, ent>>
    /\ UNCHANGED recoveryFrame

NextLe == CalculateLe

SpecLe == InitLe /\ [][NextLe]_vars

\* C16: the calculation has a row for every agreement of the data; in each
\* Corr_to_LC = accrual * rate - accrual when the agreement's currency is not
\* the local one and the rate is not 1.0, and 0 otherwise; LC_Open_Accr =
\* accrual + Corr_to_LC.
CurrencyCorrection ==
    res.op = "calculate_le_bonus_data" =>
        /\ {res.val[i].Agreement : i \in DOMAIN res.val}
              = {res.le_data[i].Agreement : i \in DOMAIN res.le_data}
        /\ \A i \in DOMAIN res.val :
              LET row == res.val[i]
                  accrual == row.Open_Accruals
              IN  /\ row.Corr_to_LC =
                        IF row.Currency # res.loc_curr /\ res.ex_rate # 1
                        THEN accrual * res.ex_rate - accrual
                        ELSE 0
                  /\ row.LC_Open_Accr = accrual + row.Corr_to_LC

\* one agreement in a foreign currency is corrected, one in the local
\* currency is not
CurrencyCorrectionWitness ==
    /\ res.op = "calculate_le_bonus_data"
    /\ res.loc_curr = "CZK"
    /\ res.ex_rate = 25
    /\ Len(res.val) = 2
    /\ res.val[1].Currency = "EUR"
    /\ res.val[1].Open_Accruals = 1000
    /\ res.val[1].Corr_to_LC = 24000
    /\ res.val[1].LC_Open_Accr = 25000
    /\ res.val[2].Currency = "CZK"
    /\ res.val[2].Open_Accruals = 1000
    /\ res.val[2].Corr_to_LC = 0
    /\ res.val[2].LC_Open_Accr = 1000

----------------------------------------------------------------------------
(* check_agreement_states                                                  *)

INVALD_TEXT_FMT == "x"

AGREEMENT_CLOSED == "CHECK"

\* an optional table: <<>> is None, <<t>> the table t
None == <<>>

Some(t) == <<t>>

\* list(bon["Agreement"].unique())
Unique(bon) == {bon[i].Agreement : i \in DOMAIN bon}

\* the first query: a non-zero amount with a missing identification
InvalidText(line) ==
    /\ \/ line.Condition = NA
       \/ line.Category = NA
       \/ line.Customer = NA
       \/ line.Agreement = NA
    /\ line.LC_Amount_Sum # 0

\* the second query without its test of the status
check_agreement_states_overwriting(txt_summs, le_bon, hq_bon) ==
    LET open_agreements ==
            Unique(le_bon) \cup (IF hq_bon # None THEN Unique(hq_bon[1]) ELSE {})
        Status(line) ==
            IF line.LC_Amount_Sum # 0 /\ line.Agreement \notin open_agreements
            THEN AGREEMENT_CLOSED
            ELSE IF InvalidText(line) THEN INVALD_TEXT_FMT
            ELSE ""
    IN  [acc \in DOMAIN txt_summs |->
            [i \in 1..Len(txt_summs[acc]) |->
                [index |-> i, line |-> txt_summs[acc][i],
                 Status |-> Status(txt_summs[acc][i])]]]

\* the subtotals of every account with their Status, before sorting
check_agreement_states(txt_summs, le_bon, hq_bon) ==
    LET open_agreements ==
            Unique(le_bon) \cup (IF hq_bon # None THEN Unique(hq_bon[1]) ELSE {})
        Status(line) ==
            IF InvalidText(line) THEN INVALD_TEXT_FMT
            ELSE IF line.LC_Amount_Sum # 0 /\ line.Agreement \notin open_agreements
            THEN AGREEMENT_CLOSED
            ELSE ""
    IN  [acc \in DOMAIN txt_summs |->
            [i \in 1..Len(txt_summs[acc]) |->
                [index |-> i, line |-> txt_summs[acc][i],
                 Status |-> Status(txt_summs[acc][i])]]]

\* the order of the strings "x" > "CHECK" > ""
StatusRank(status) ==
    CASE status = INVALD_TEXT_FMT -> 2
      [] status = AGREEMENT_CLOSED -> 1
      [] OTHER -> 0

\* sort_values("Status", ascending = False) with the default quicksort: the
\* rows in any order that is descending in Status
SortedByStatus(rows) ==
    LET n == Len(rows)
        perms == {p \in [1..n -> 1..n] : \A i, j \in 1..n : i # j => p[i] # p[j]}
    IN  {[i \in 1..n |-> rows[p[i]]] : p \in
            {q \in perms : \A i, j \in 1..n :
                i < j => StatusRank(rows[q[i]].Status) >= StatusRank(rows[q[j]].Status)}}

MaxLines == 2

TxtLines ==
    [Condition : {"ZB01", NA}, Category : {"10", NA}, Customer : {"C1", NA},
     Agreement : {"A1", "A2", NA}, LC_Amount_Sum : {0, 500}]

AgreementTable(agreements) == [i \in 1..Len(agreements) |-> [Agreement |-> agreements[i]]]

InitStates ==
    /\ InitPipeline
    /\ \E txt_summ \in SeqsUpTo(TxtLines, MaxLines),
          le_bon \in {AgreementTable(<<>>), AgreementTable(<<"A1">>)},
          hq_bon \in {None, Some(AgreementTable(<<"A2">>))} :
          res = [op |-> "none", txt_summs |-> [acc \in {"1"} |-> txt_summ],
                 le_bon |-> le_bon, hq_bon |-> hq_bon, val |-> <<>>]

CheckAgreementStates ==
    /\ res.op = "none"
    /\ \E checked \in
          [DOMAIN res.txt_summs ->
              UNION {SortedByStatus(check_agreement_states(res.txt_summs, res.le_bon,
                                                           res.hq_bon)[a]) :
                        a \in DOMAIN res.txt_summs}] :
          /\ \A acc \in DOMAIN res.txt_summs :
                checked[acc] \in
                    SortedByStatus(check_agreement_states(res.txt_summs, res.le_bon,
                                                          res.hq_bon)[acc])
          /\ res' = [res EXCEPT !.op = "check_agreement_states", !.val = checked]
    /\ UNCHANGED <<file, ent>>
    /\ UNCHANGED recoveryFrame

NextStates == CheckAgreementStates

SpecStates == InitStates /\ [][NextStates]_vars

\* the agreements open in the local data or in the head quarter data
OpenAgreements ==
    Unique(res.le_bon) \cup (IF res.hq_bon # None THEN Unique(res.hq_bon[1]) ELSE {})

AllPresent(line) ==
    /\ line.Condition # NA
    /\ line.Category # NA
    /\ line.Customer # NA
    /\ line.Agreement # NA

\* C17: every subtotal line of every account is in the result once; its
\* Status is 'x' exactly when the amount is not zero and one of Condition,
\* Category, Customer, Agreement is missing, 'CHECK' exactly when the amount
\* is not zero, all four are present and the agreement is open neither in
\* the local nor in the head quarter data, and empty otherwise.
AgreementStateFlags ==
    res.op = "check_agreement_states" =>
        \A acc \in DOMAIN res.txt_summs :
            LET rows == res.val[acc]
            IN  /\ Len(rows) = Len(res.txt_summs[acc])
                /\ {rows[i].index : i \in DOMAIN rows} = DOMAIN res.txt_summs[acc]
                /\ \A i \in DOMAIN rows :
                      LET line == rows[i].line
                      IN  /\ line = res.txt_summs[acc][rows[i].index]
                          /\ rows[i].Status \in {INVALD_TEXT_FMT, AGREEMENT_CLOSED, ""}
                          /\ rows[i].Status = INVALD_TEXT_FMT <=>
                                (line.LC_Amount_Sum # 0 /\ ~AllPresent(line))
                          /\ rows[i].Status = AGREEMENT_CLOSED <=>
                                (/\ line.LC_Amount_Sum # 0
                                 /\ AllPresent(line)
                                 /\ line.Agreement \notin OpenAgreements)

\* a line with a missing condition and a closed agreement is marked 'x',
\* and a complete line with a closed agreement is marked 'CHECK'
AgreementStateFlagsWitness ==
    /\ res.op = "check_agreement_states"
    /\ res.hq_bon = None
    /\ Len(res.val["1"]) = 2
    /\ res.val["1"][1].Status = INVALD_TEXT_FMT
    /\ res.val["1"][1].index = 2
    /\ res.val["1"][1].line.Condition = NA
    /\ res.val["1"][1].line.Agreement = "A2"
    /\ res.val["1"][2].Status = AGREEMENT_CLOSED
    /\ res.val["1"][2].line.Agreement = "A2"

----------------------------------------------------------------------------
(* summarize                                                               *)

\* a nullable number as Series.sum() counts it
Val(x) == IF x = <<>> THEN 0 ELSE x[1]

Num(n) == <<n>>

SummaryRows ==
    {"Local_Entity_Bonuses", "HQ_Bonuses", "Sum", "GL_Balance", "Difference",
     "Status:_x", "Status:_CHECK"}

\* the sum of LC_Amount_Sum of the checked subtotals with a status
StatusSum(checked, status) ==
    SumSeq([i \in 1..Len(checked) |->
               IF checked[i].Status = status THEN checked[i].line.LC_Amount_Sum ELSE 0])

\* fs10n[acc] is None: 0; else the cell of the period, 0 when it is NA
CummBalance(gl_data, acc, period) ==
    IF gl_data[acc] = None THEN 0
    ELSE Val(gl_data[acc][1][period].Cummulative_Balance)

\* the column of an account before the rows Sum and Difference are computed
AccountColumn(txt_summs, le_calcs, hq_calcs, gl_data, acc, period) ==
    IF acc \notin DOMAIN gl_data
    THEN [row \in SummaryRows |-> Num(0)]
    ELSE [row \in SummaryRows |->
            CASE row = "Local_Entity_Bonuses" ->
                    Num(SumSeq([i \in 1..Len(le_calcs) |-> le_calcs[i].sums[acc]]))
              [] row = "HQ_Bonuses" ->
                    IF hq_calcs # None
                    THEN Num(SumSeq([i \in 1..Len(hq_calcs[1]) |->
                                        Val(hq_calcs[1][i].sums[acc])]))
                    ELSE Num(0)
              [] row = "GL_Balance" -> Num(CummBalance(gl_data, acc, period))
              [] row = "Status:_x" -> Num(StatusSum(txt_summs[acc], INVALD_TEXT_FMT))
              [] row = "Status:_CHECK" -> Num(StatusSum(txt_summs[acc], AGREEMENT_CLOSED))
              [] OTHER -> <<>>]

\* the column Difference before the row Sum is computed
DifferenceColumn(le_calcs, hq_calcs) ==
    [row \in SummaryRows |->
        CASE row = "Local_Entity_Bonuses" ->
                Num(SumSeq([i \in 1..Len(le_calcs) |-> le_calcs[i].Difference]))
          [] row = "HQ_Bonuses" ->
                IF hq_calcs # None
                THEN Num(SumSeq([i \in 1..Len(hq_calcs[1]) |->
                                    Val(hq_calcs[1][i].Difference)]))
                ELSE <<>>
          [] OTHER -> <<>>]

\* the row Difference computed as Sum - GL_Balance
summarize_negated(txt_summs, le_calcs, hq_calcs, gl_data, accs, period) ==
    LET gl_accs == {accs[i] : i \in DOMAIN accs}
        col == [c \in gl_accs \cup {"Difference"} |->
                   IF c = "Difference" THEN DifferenceColumn(le_calcs, hq_calcs)
                   ELSE AccountColumn(txt_summs, le_calcs, hq_calcs, gl_data, c, period)]
        Sum(c) == Val(col[c]["Local_Entity_Bonuses"]) + Val(col[c]["HQ_Bonuses"])
    IN  [c \in gl_accs \cup {"Difference"} |->
            [row \in SummaryRows |->
                CASE row = "Sum" -> Num(Sum(c))
                  [] row = "Difference" /\ c # "Difference" ->
                        Num(Sum(c) - Val(col[c]["GL_Balance"]))
                  [] row = "Status:_x" /\ c = "Difference" ->
                        Num(SumOver([a \in gl_accs |-> Val(col[a]["Status:_x"])], gl_accs))
                  [] row = "Status:_CHECK" /\ c = "Difference" ->
                        Num(SumOver([a \in gl_accs |-> Val(col[a]["Status:_CHECK"])], gl_accs))
                  [] OTHER -> col[c][row]]]

\* the table by column and row
summarize(txt_summs, le_calcs, hq_calcs, gl_data, accs, period) ==
    LET gl_accs == {accs[i] : i \in DOMAIN accs}
        col == [c \in gl_accs \cup {"Difference"} |->
                   IF c = "Difference" THEN DifferenceColumn(le_calcs, hq_calcs)
                   ELSE AccountColumn(txt_summs, le_calcs, hq_calcs, gl_data, c, period)]
        Sum(c) == Val(col[c]["Local_Entity_Bonuses"]) + Val(col[c]["HQ_Bonuses"])
    IN  [c \in gl_accs \cup {"Difference"} |->
            [row \in SummaryRows |->
                CASE row = "Sum" -> Num(Sum(c))
                  [] row = "Difference" /\ c # "Difference" ->
                        Num(Val(col[c]["GL_Balance"]) - Sum(c))
                  [] row = "Status:_x" /\ c = "Difference" ->
                        Num(SumOver([a \in gl_accs |-> Val(col[a]["Status:_x"])], gl_accs))
                  [] row = "Status:_CHECK" /\ c = "Difference" ->
                        Num(SumOver([a \in gl_accs |-> Val(col[a]["Status:_CHECK"])], gl_accs))
                  [] OTHER -> col[c][row]]]

SummaryAccounts == <<"1">>

SummaryPeriods == {1, 2}

SummaryLeCalcs ==
    SeqsUpTo([sums : [{"1"} -> {0, 500}], Difference : {0, -500}], MaxRows)

SummaryHqCalcs ==
    {None} \cup
    {Some(t) : t \in SeqsUpTo({[sums |-> [a \in {"1"} |-> Num(300)], Difference |-> Num(0)],
                               [sums |-> [a \in {"1"} |-> <<>>], Difference |-> <<>>]},
                              MaxRows)}

SummaryGlData ==
    {<<>>} \cup
    [{"1"} -> {None} \cup
              {Some(t) : t \in [SummaryPeriods ->
                                   [Cummulative_Balance : {<<>>, Num(800), Num(810)}]]}]

SummaryChecked ==
    [{"1"} -> SeqsUpTo([index : {1}, line : [LC_Amount_Sum : {500}],
                        Status : {INVALD_TEXT_FMT, AGREEMENT_CLOSED, ""}], 1)]

InitSummary ==
    /\ InitPipeline
    /\ \E txt_summs \in SummaryChecked, le_calcs \in SummaryLeCalcs,
          hq_calcs \in SummaryHqCalcs, gl_data \in SummaryGlData,
          period \in SummaryPeriods :
          res = [op |-> "none", txt_summs |-> txt_summs, le_calcs |-> le_calcs,
                 hq_calcs |-> hq_calcs, gl_data |-> gl_data,
                 accs |-> SummaryAccounts, period |-> period, val |-> <<>>]

Summarize ==
    /\ res.op = "none"
    /\ res' = [res EXCEPT !.op = "summarize",
                          !.val = summarize(res.txt_summs, res.le_calcs, res.hq_calcs,
                                            res.gl_data, res.accs, res.period)]
    /\ UNCHANGED <<file, ent>>
    /\ UNCHANGED recoveryFrame

NextSummary == Summarize

SpecSummary == InitSummary /\ [][NextSummary]_vars

\* the cumulative balance of FS10N for the account and period, 0 when the
\* account has no FS10N data or the balance is null
GlBalance(acc) ==
    IF acc \notin DOMAIN res.gl_data THEN 0
    ELSE IF res.gl_data[acc] = None THEN 0
    ELSE IF res.gl_data[acc][1][res.period].Cummulative_Balance = <<>> THEN 0
    ELSE res.gl_data[acc][1][res.period].Cummulative_Balance[1]

----------------------------------------------------------------------------
(* calculate_hq_bonus_data                                                 *)

\* the rows with a name carry no amounts
Prepared(hq_data) ==
    [i \in 1..Len(hq_data) |->
        IF hq_data[i].Name # "" THEN [hq_data[i] EXCEPT !.Open_Accruals = 0]
        ELSE hq_data[i]]

\* groupby("Agreement").sum() of Open_Accruals, merged on the agreement
AccrualSum(subset, agreement) ==
    SumSeq([i \in 1..Len(subset) |->
               IF subset[i].Agreement = agreement THEN subset[i].Open_Accruals ELSE 0])

calculate_hq_bonus_data(txt_summs, hq_data, loc_curr, ex_rate) ==
    LET subset == Prepared(hq_data)
        calc_mask == NotDuplicated(subset)
    IN  [i \in 1..Len(subset) |->
            LET row == subset[i]
                corr == IF ex_rate # 1 /\ row.Currency # loc_curr /\ calc_mask[i]
                        THEN row.Open_Accruals * ex_rate - row.Open_Accruals
                        ELSE 0
                lc_open_accr == AccrualSum(subset, row.Agreement) + corr
                sums == [acc \in DOMAIN txt_summs |->
                            AgreementSum(txt_summs[acc], row.Agreement)]
            IN  [Agreement |-> row.Agreement, Name |-> row.Name,
                 Currency |-> row.Currency, Open_Accruals |-> row.Open_Accruals,
                 Corr_to_LC |-> Num(corr),
                 LC_Open_Accr |-> IF calc_mask[i] THEN Num(lc_open_accr) ELSE <<>>,
                 sums |-> [acc \in DOMAIN sums |->
                              IF calc_mask[i] THEN Num(sums[acc]) ELSE <<>>],
                 Difference |-> IF calc_mask[i]
                                THEN Num(SumOver(sums, DOMAIN sums) - lc_open_accr)
                                ELSE <<>>]]

HqRows == [Name : {"", "N"}, Agreement : {"A1", "A2"}, Currency : Currencies,
           Open_Accruals : {0, 1000}]

InitHq ==
    /\ InitPipeline
    /\ \E txt_summs \in LeTxtSumms, hq_data \in SeqsUpTo(HqRows, MaxRows),
          loc_curr \in Currencies, ex_rate \in Rates :
          res = [op |-> "none", txt_summs |-> txt_summs, hq_data |-> hq_data,
                 loc_curr |-> loc_curr, ex_rate |-> ex_rate, val |-> <<>>]

CalculateHq ==
    /\ res.op = "none"
    /\ res' = [res EXCEPT !.op = "calculate_hq_bonus_data",
                          !.val = calculate_hq_bonus_data(res.txt_summs, res.hq_data,
                                                          res.loc_curr, res.ex_rate)]
    /\ UNCHANGED <<file, ent>>
    /\ UNCHANGED recoveryFrame

NextHq == CalculateHq

SpecHq == InitHq /\ [][NextHq]_vars

\* C19: in the head quarter calculation every row that is not the first row
\* of its agreement has the correction, the corrected accrual, the sum of
\* every account and the difference null.
DuplicatesCarryNoNumbers ==
    res.op = "calculate_hq_bonus_data" =>
        \A i \in DOMAIN res.val :
            (\E j \in 1..(i - 1) : res.val[j].Agreement = res.val[i].Agreement) =>
                /\ res.val[i].Corr_to_LC = <<>>
                /\ res.val[i].LC_Open_Accr = <<>>
                /\ \A acc \in DOMAIN res.val[i].sums : res.val[i].sums[acc] = <<>>
                /\ res.val[i].Difference = <<>>

----------------------------------------------------------------------------
(* consolidate_zsd25_data                                                  *)

Max(a, b) == IF a >= b THEN a ELSE b

\* Series.unique(): the values in the order of their first occurrence
UniqueSeq(rows) ==
    [i \in 1..Len(drop_duplicates(rows)) |-> drop_duplicates(rows)[i].Agreement]

\* the cell of a column that is shorter than the table is missing
Cell(column, i) == IF i <= Len(column) THEN column[i] ELSE NA

_get_status_msg(hq_agreem, le_agreems) ==
    IF hq_agreem = NA THEN "no match"
    ELSE IF hq_agreem \in le_agreems THEN "Is in HQ and Local Agreements."
    ELSE "Is in HQ Agreements only."

\* the difference of the local agreement, or a text
_get_difference_hq_status(le_diff, le_agreem, hq_agreems) ==
    IF le_agreem = NA THEN [text |-> "", num |-> <<>>]
    ELSE IF le_agreem \in hq_agreems THEN [text |-> "", num |-> le_diff]
    ELSE [text |-> "is just in local overview.", num |-> <<>>]

_get_overview_val(le_agreem, hq_agreems, le_agreems) ==
    IF le_agreem = NA THEN ""
    ELSE IF le_agreem \in hq_agreems /\ le_agreem \in le_agreems THEN "HQ and Local"
    ELSE IF le_agreem \in le_agreems /\ le_agreem \notin hq_agreems
    THEN "In Local Overview"
    ELSE "In HQ overview"

\* str() of a float or of a text is never numeric
_get_amount_compared_val(le_diff, hq_diff) ==
    IF le_diff = <<>> THEN "" ELSE "X"

\* no row of the local calculation dropped
consolidate_zsd25_data_keeping_all(le_calcs, hq_calcs) ==
    [deduped |-> le_calcs, hq_compare |-> <<>>, local_compare |-> <<>>]

consolidate_zsd25_data(le_calcs, hq_calcs) ==
    LET loc_bon_agreems == UniqueSeq(le_calcs)
        glob_bon_agreems == UniqueSeq(hq_calcs)
        dual_vals == [i \in 1..Len(le_calcs) |->
                         le_calcs[i].Agreement \in Unique(hq_calcs)]
        le_agreem == [i \in 1..Len(le_calcs) |-> le_calcs[i].Agreement]
        le_diff == [i \in 1..Len(le_calcs) |-> Num(le_calcs[i].Difference)]
        hq_agreem == [i \in 1..Len(hq_calcs) |-> hq_calcs[i].Agreement]
        LeDiff(i) == IF i <= Len(le_diff) THEN le_diff[i] ELSE <<>>
    IN  [deduped |->
            Select(le_calcs, [i \in 1..Len(le_calcs) |-> ~dual_vals[i]], 1),
         hq_compare |->
            [i \in 1..Max(Len(loc_bon_agreems), Len(glob_bon_agreems)) |->
                [HQ_Agreements |-> Cell(glob_bon_agreems, i),
                 LE_Agreements |-> Cell(loc_bon_agreems, i),
                 Overview |-> _get_status_msg(Cell(glob_bon_agreems, i),
                                              Unique(le_calcs))]],
         local_compare |->
            [i \in 1..Max(Len(le_calcs), Len(hq_calcs)) |->
                LET hq_diff == _get_difference_hq_status(LeDiff(i), Cell(le_agreem, i),
                                                         Unique(hq_calcs))
                IN  [LE_Agreem |-> Cell(le_agreem, i),
                     LE_Diff |-> LeDiff(i),
                     HQ_Agreem |-> Cell(hq_agreem, i),
                     HQ_Diff |-> hq_diff,
                     Overview |-> _get_overview_val(Cell(le_agreem, i),
                                                    Unique(hq_calcs), Unique(le_calcs)),
                     Amount_Compared |-> _get_amount_compared_val(LeDiff(i), hq_diff)]]]

ConsAgreements == {"A1", "A2", "A3"}

\* results of calculate_le_bonus_data: one row for an agreement
ConsLeCalcs ==
    {t \in SeqsUpTo([Agreement : ConsAgreements, Difference : {0, 70}], MaxRows) :
        \A i, j \in DOMAIN t : i # j => t[i].Agreement # t[j].Agreement}

ConsHqCalcs == SeqsUpTo([Agreement : ConsAgreements], MaxRows)

InitCons ==
    /\ InitPipeline
    /\ \E le_calcs \in ConsLeCalcs, hq_calcs \in ConsHqCalcs :
          res = [op |-> "none", le_calcs |-> le_calcs, hq_calcs |-> hq_calcs,
                 val |-> <<>>]

Consolidate ==
    /\ res.op = "none"
    /\ res' = [res EXCEPT !.op = "consolidate_zsd25_data",
                          !.val = consolidate_zsd25_data(res.le_calcs, res.hq_calcs)]
    /\ UNCHANGED <<file, ent>>
    /\ UNCHANGED recoveryFrame

NextCons == Consolidate

SpecCons == InitCons /\ [][NextCons]_vars

\* the positions of the local rows whose agreement the head quarter
\* calculation does not hold
LocalOnly ==
    {i \in DOMAIN res.le_calcs :
        \A j \in DOMAIN res.hq_calcs :
            res.hq_calcs[j].Agreement # res.le_calcs[i].Agreement}

\* C20: the local result of the consolidation holds exactly the rows of the
\* local calculation whose agreement does not occur in the head quarter
\* calculation, in their order and unchanged.
ConsolidationKeepsLocalOnly ==
    res.op = "consolidate_zsd25_data" =>
        /\ Len(res.val.deduped) = Cardinality(LocalOnly)
        /\ \A k \in DOMAIN res.val.deduped :
              \E i \in LocalOnly :
                  /\ Cardinality({j \in LocalOnly : j <= i}) = k
                  /\ res.val.deduped[k] = res.le_calcs[i]

\* of two local agreements the first is a head quarter agreement as well
\* and is dropped, the second is kept
ConsolidationKeepsLocalOnlyWitness ==
    /\ res.op = "consolidate_zsd25_data"
    /\ Len(res.le_calcs) = 2
    /\ res.le_calcs[1].Agreement = "A1"
    /\ res.le_calcs[2].Agreement = "A2"
    /\ Unique(res.hq_calcs) = {"A1", "A3"}
    /\ res.val.deduped = <<res.le_calcs[2]>>

----------------------------------------------------------------------------
(* convert_fbl3n_data_opt and _parse_data_opt on the rows of the cleaned   *)
(* text. Text is the sequence of its tokens between semicolons, <<>> when  *)
(* the field is empty; LC_Amount is the printed amount with its trailing   *)
(* sign. The dtypes and their categories are not part of a row's values.   *)

\* str.strip of the tokens that occur
Strip(t) ==
    CASE t = " ZB01" -> "ZB01"
      [] t = " " -> ""
      [] OTHER -> t

\* str.len of the tokens that occur
StrLen(t) ==
    CASE t \in {"ZB01", "note"} -> 4
      [] t = " ZB01" -> 5
      [] t \in {"ZB1", "B12"} -> 3
      [] t \in {"B1", "77", "88", "x7"} -> 2
      [] t = " " -> 1
      [] OTHER -> 0

\* pd.to_numeric(errors = "coerce") of the tokens that occur
ToNumeric(t) ==
    CASE t = "77" -> Num(77)
      [] t = "88" -> Num(88)
      [] OTHER -> <<>>

\* Series.str.get(n) of the token lists with at least four tokens
Token(row, n) ==
    IF Len(row.Text) >= 4 /\ n <= Len(row.Text) THEN row.Text[n] ELSE NA

StripNA(t) == IF t = NA THEN NA ELSE Strip(t)

\* the printed amount as a number: a trailing minus becomes the sign
ParseAmount(a) == IF a.minus THEN 0 - a.abs ELSE a.abs

_parse_data_opt(data) ==
    LET Condition(row) == StripNA(Token(row, 1))
        Category(row) ==
            LET c == StripNA(Token(row, 2))
            IN  IF c # NA /\ StrLen(c) > 2 THEN NA ELSE c
        note_idx == {i \in DOMAIN data : Token(data[i], 5) # NA}
        Note(row) ==
            IF note_idx = {} THEN Token(row, 5)
            ELSE IF StripNA(Token(row, 5)) = "" THEN NA
            ELSE StripNA(Token(row, 5))
    IN  [i \in 1..Len(data) |->
            [Text |-> data[i].Text,
             Posting_Key |-> data[i].Posting_Key,
             LC_Amount |-> ParseAmount(data[i].LC_Amount),
             Condition |-> IF Condition(data[i]) # NA /\ StrLen(Condition(data[i])) # 4
                           THEN NA ELSE Condition(data[i]),
             Category |-> IF Category(data[i]) # NA /\ StrLen(Category(data[i])) # 2
                          THEN NA ELSE Category(data[i]),
             Customer |-> ToNumeric(Token(data[i], 3)),
             Agreement |-> ToNumeric(Token(data[i], 4)),
             Note |-> Note(data[i])]]

\* chunks of equal size, the rows that remain left out
array_split_even(data, n) ==
    [k \in 1..n |-> SubSeq(data, (k - 1) * (Len(data) \div n) + 1,
                           k * (Len(data) \div n))]

\* np.array_split: the first len % n chunks hold one row more
array_split(data, n) ==
    LET size == Len(data) \div n
        extras == Len(data) % n
        Start(k) == (k - 1) * size + (IF k - 1 < extras THEN k - 1 ELSE extras)
    IN  [k \in 1..n |-> SubSeq(data, Start(k) + 1, Start(k + 1))]

RECURSIVE concat(_)
\* pd.concat of the parts in their order
concat(parts) == IF parts = <<>> THEN <<>> ELSE Head(parts) \o concat(Tail(parts))

\* stands for MAX_ROWS_SNG = 1000 on tables of the size enumerated here
MaxRowsSng == 2

\* the result: raised (an assertion failed), or the table, None when empty
convert_fbl3n_data_opt(data, multiproc, n_workers) ==
    LET multi == multiproc /\ Len(data) > MaxRowsSng
        parsed == IF ~multi THEN _parse_data_opt(data)
                  ELSE concat([k \in 1..n_workers |->
                                  _parse_data_opt(array_split(data, n_workers)[k])])
        Signed(row) ==
            IF row.Posting_Key = 50 /\ row.LC_Amount > 0
            THEN [row EXCEPT !.LC_Amount = 0 - row.LC_Amount]
            ELSE row
    IN  IF multi /\ n_workers < 2 THEN [raised |-> TRUE, table |-> None]
        ELSE IF parsed = <<>> THEN [raised |-> FALSE, table |-> None]
        ELSE [raised |-> FALSE,
              table |-> Some([i \in 1..Len(parsed) |-> Signed(parsed[i])])]

MaxFbl3nRows == 4

MaxWorkers == 3

Fbl3nRows ==
    {[Text |-> <<"ZB01", "B1", "77", "88", "note">>, Posting_Key |-> 50,
      LC_Amount |-> [abs |-> 100, minus |-> FALSE]],
     [Text |-> <<" ZB01", "B12", "x7", "88", " ">>, Posting_Key |-> 40,
      LC_Amount |-> [abs |-> 100, minus |-> FALSE]],
     [Text |-> <<"ZB1", "B1", "77">>, Posting_Key |-> 50,
      LC_Amount |-> [abs |-> 100, minus |-> TRUE]],
     [Text |-> <<>>, Posting_Key |-> 40,
      LC_Amount |-> [abs |-> 100, minus |-> TRUE]],
     [Text |-> <<"ZB1", "B1", "77", "88">>, Posting_Key |-> 50,
      LC_Amount |-> [abs |-> 100, minus |-> FALSE]]}

InitFbl3n ==
    /\ InitPipeline
    /\ \E data \in SeqsUpTo(Fbl3nRows, MaxFbl3nRows), n_workers \in 1..MaxWorkers :
          res = [op |-> "none", data |-> data, n_workers |-> n_workers,
                 single |-> <<>>, multi |-> <<>>]

\* the conversion of the same rows without and with multiproc
ConvertFbl3n ==
    /\ res.op = "none"
    /\ res' = [res EXCEPT
                  !.op = "convert_fbl3n_data_opt",
                  !.single = convert_fbl3n_data_opt(res.data, FALSE, res.n_workers),
                  !.multi = convert_fbl3n_data_opt(res.data, TRUE, res.n_workers)]
    /\ UNCHANGED <<file, ent>>
    /\ UNCHANGED recoveryFrame

NextFbl3n == ConvertFbl3n

SpecFbl3n == InitFbl3n /\ [][NextFbl3n]_vars

\* C21: for every input of more rows than the single-process limit and
\* every number of workers from 2, the conversion with multiproc returns the
\* rows of the single-process conversion, in their order and with their
\* values.
ChunkedParseEquivalence ==
    (/\ res.op = "convert_fbl3n_data_opt"
     /\ Len(res.data) > MaxRowsSng
     /\ res.n_workers >= 2)
    => (~res.multi.raised /\ res.multi = res.single)

\* three rows parsed by two workers: the only note of the table is in the
\* first chunk, a blank note in the second
ChunkedParseEquivalenceWitness ==
    /\ res.op = "convert_fbl3n_data_opt"
    /\ res.n_workers = 2
    /\ Len(res.data) = 3
    /\ res.data[1].Text = <<"ZB01", "B1", "77", "88", "note">>
    /\ res.data[3].Text = <<" ZB01", "B12", "x7", "88", " ">>
    /\ res.multi.table # None
    /\ res.multi.table[1][1].Note = "note"
    /\ res.multi.table[1][1].LC_Amount = -100
    /\ res.multi.table[1][3].Note = NA
    /\ res.multi.table[1][3].Condition = "ZB01"
    /\ res.multi.table[1][3].Category = NA

----------------------------------------------------------------------------
(* biaDates2 on the days from 1 December 2022 to 31 March 2023. A date is  *)
(* the number of its day in that range, 1 being Thursday 1 December 2022.  *)

Months ==
    <<[year |-> 2022, month |-> 12, days |-> 31],
      [year |-> 2023, month |-> 1, days |-> 31],
      [year |-> 2023, month |-> 2, days |-> 28],
      [year |-> 2023, month |-> 3, days |-> 31]>>

RECURSIVE DaysBefore(_)
\* the days of the range before the m-th month
DaysBefore(m) == IF m = 1 THEN 0 ELSE DaysBefore(m - 1) + Months[m - 1].days

\* the month of a date, as its position in Months
MonthOf(day) ==
    CHOOSE m \in DOMAIN Months : DaysBefore(m) < day /\ day <= DaysBefore(m) + Months[m].days

\* 0 is Monday, 6 is Sunday
Weekday(day) == (day + 2) % 7

\* np.is_busday with the default week mask
is_busday(day, holidays) == Weekday(day) < 5 /\ day \notin holidays

\* day.replace(day = 1)
get_start_of_month(day) == DaysBefore(MonthOf(day)) + 1

RECURSIVE BusdayOnOrAfter(_, _)
BusdayOnOrAfter(day, off_days) ==
    IF is_busday(day, off_days) THEN day ELSE BusdayOnOrAfter(day + 1, off_days)

RECURSIVE BusdayOnOrBefore(_, _)
BusdayOnOrBefore(day, off_days) ==
    IF is_busday(day, off_days) THEN day ELSE BusdayOnOrBefore(day - 1, off_days)

get_ultimo(uplusone, off_days) == BusdayOnOrBefore(uplusone - 1, off_days)

\* the first day of the month taken for its first working day
get_ultimo_plus_one_unchecked(day, off_days) == get_start_of_month(day)

get_ultimo_plus_one(day, off_days) == BusdayOnOrAfter(get_start_of_month(day), off_days)

calculate_reconciliation_times(day, off_days) ==
    LET ultimo_plus_one == get_ultimo_plus_one(day, off_days)
        this == Months[MonthOf(day)]
        period == IF this.month - 1 = 0 THEN 12 ELSE this.month - 1
        recon_date ==
            IF day > ultimo_plus_one THEN day
            ELSE BusdayOnOrBefore(get_start_of_month(day) - 1, off_days)
    IN  [fiscal_year |-> IF day > ultimo_plus_one THEN this.year + 1
                         ELSE IF period # 12 THEN this.year + 1 ELSE this.year,
         fiscal_period |-> IF day > ultimo_plus_one THEN this.month ELSE period,
         reconciliation_date |-> recon_date,
         conversion_date |-> IF recon_date = day THEN recon_date
                             ELSE get_ultimo(day, off_days)]

\* the days of January to March 2023
CalendarDays == (DaysBefore(2) + 1)..(DaysBefore(4) + Months[4].days)

\* 30 December, 1, 2 and 6 January, 1 and 28 February, 1 March
HolidayCandidates == {30, 32, 33, 37, 63, 90, 91}

InitDates ==
    /\ InitPipeline
    /\ \E day \in CalendarDays, off_days \in SUBSET HolidayCandidates :
          res = [op |-> "none", day |-> day, off_days |-> off_days, val |-> <<>>]

CalculateReconciliationTimes ==
    /\ res.op = "none"
    /\ res' = [res EXCEPT
                  !.op = "calculate_reconciliation_times",
                  !.val = calculate_reconciliation_times(res.day, res.off_days)]
    /\ UNCHANGED <<file, ent>>
    /\ UNCHANGED recoveryFrame

NextDates == CalculateReconciliationTimes

SpecDates == InitDates /\ [][NextDates]_vars

\* the business days of the m-th month
BusinessDays(m) ==
    {d \in (DaysBefore(m) + 1)..(DaysBefore(m) + Months[m].days) :
        Weekday(d) \notin {5, 6} /\ d \notin res.off_days}

\* C22: the reconciliation date of a day later than the first business day
\* of its month is the day itself; that of a day on or before the first
\* business day, a weekend day or a holiday included, is the last business
\* day of the month before.
ReconciliationDate ==
    res.op = "calculate_reconciliation_times" =>
        LET m == MonthOf(res.day)
            first == CHOOSE d \in BusinessDays(m) : \A e \in BusinessDays(m) : d <= e
            last == CHOOSE d \in BusinessDays(m - 1) : \A e \in BusinessDays(m - 1) : e <= d
        IN  res.val.reconciliation_date = IF res.day > first THEN res.day ELSE last

\* Monday 2 January 2023, a holiday as are 30 December and 1 January, is
\* before the first business day, 3 January: the date is 29 December 2022
ReconciliationDateWitness ==
    /\ res.op = "calculate_reconciliation_times"
    /\ res.day = 33
    /\ res.off_days = {30, 32, 33}
    /\ res.val.reconciliation_date = 29
    /\ res.val.fiscal_period = 12
    /\ res.val.fiscal_year = 2023

----------------------------------------------------------------------------
(* The FS10N data of an account: converted, written to the binary cache,   *)
(* read back, and read by summarize. A table is its index and its rows.    *)

\* _parse_amounts: an empty cell has no number
ParseCell(cell) == IF cell = <<>> THEN <<>> ELSE Num(ParseAmount(cell[1]))

\* the last row dropped; the periods 1, 2, ... set as the index
convert_fs10n_data(raw) ==
    [index |-> [i \in 1..(Len(raw) - 1) |-> i],
     rows |-> [i \in 1..(Len(raw) - 1) |->
                  [Cummulative_Balance |-> ParseCell(raw[i].Cummulative_Balance)]]]

\* reset_index(drop = True), to_feather: the rows without their index
store_to_binary(data) == data.rows

\* read_feather: the rows under the default index 0, 1, ...
read_binary_file(feather) ==
    [index |-> [i \in 1..Len(feather) |-> i - 1], rows |-> feather]

\* fs10n[acc].loc[period, "Cummulative_Balance"] of summarize, 0 for NA;
\* a period that is no label of the index raises KeyError
cumm_balance(data, period) ==
    IF \E i \in DOMAIN data.index : data.index[i] = period
    THEN [raised |-> FALSE,
          val |-> Val(data.rows[CHOOSE i \in DOMAIN data.index :
                                   data.index[i] = period].Cummulative_Balance)]
    ELSE [raised |-> TRUE, val |-> 0]

MaxPeriods == 3

Fs10nCells == {<<>>, <<[abs |-> 800, minus |-> FALSE]>>, <<[abs |-> 810, minus |-> TRUE]>>}

\* the rows of the export: a row for each period and the row of the total
Fs10nExports ==
    UNION {[1..(n + 1) -> [Cummulative_Balance : Fs10nCells]] : n \in 1..MaxPeriods}

InitCache ==
    /\ InitPipeline
    /\ \E raw \in Fs10nExports :
          \E period \in 1..(Len(raw) - 1) :
             res = [op |-> "none", raw |-> raw, period |-> period,
                    fresh |-> [raised |-> FALSE, val |-> 0],
                    resumed |-> [raised |-> FALSE, val |-> 0]]

\* process_fs10n_data of the run that converts and of the run that resumes,
\* and what summarize reads from the dataset each has stored
CacheRoundTrip ==
    /\ res.op = "none"
    /\ res' = [res EXCEPT
                  !.op = "summarize",
                  !.fresh = cumm_balance(convert_fs10n_data(res.raw), res.period),
                  !.resumed = cumm_balance(
                                  read_binary_file(
                                      store_to_binary(convert_fs10n_data(res.raw))),
                                  res.period)]
    /\ UNCHANGED <<file, ent>>
    /\ UNCHANGED recoveryFrame

NextCache == CacheRoundTrip

SpecCache == InitCache /\ [][NextCache]_vars

\* C23: the cumulative balance summarize reads for a period from the FS10N
\* data loaded from the binary cache is the one it reads from the freshly
\* converted data.
CacheRoundTripSameBalance ==
    res.op = "summarize" => res.resumed = res.fresh


----------------------------------------------------------------------------
(* The 'exported' flag of the export stages                                *)

\* C24: the 'exported' flag of an export stage of a country becomes true in
\* the store only in a step in which that stage's export returned without
\* raising; and a step in which the FBL3N export raised anything but a SAP
\* runtime error leaves fbl3n_data_exported false and does not go on to the
\* processing of the FBL3N data.
ExportedOnlyOnSuccess ==
    [][\A c \in Countries :
          /\ \A st \in ExportStages :
                (~Flag(c, st[2]) /\ Flag(c, st[2])') =>
                    (Exports(c, st[1]) /\ lastOp'[3] = "ok")
          /\ (Exports(c, "export:fbl3n") /\ lastOp'[3] \in {"nodata", "raise"}) =>
                (~Flag(c, "fbl3n_data_exported")' /\ pc' # "process_fbl3n_data")]_vars


----------------------------------------------------------------------------
(* The retries of the FBL3N export                                         *)

\* the number of the call of fbl3n.export the next step of the handler makes
AttemptNo == IF pc = "export_fbl3n_data" THEN 1 ELSE loc.nth + 2

\* C25: export_fbl3n_data calls the export at most 4 times (the first attempt
\* and 3 retries); while the export raises SapRuntimeError the handler goes on
\* to the next attempt up to the 4th, after which it returns False with
\* fbl3n_data_exported still false; an attempt that succeeds is the last one.
BoundedFbl3nRetry ==
    [][\A c \in Countries :
          Exports(c, "export:fbl3n") =>
              /\ AttemptNo <= 4
              /\ lastOp'[3] = "ok" =>
                    (pc' = "process_fbl3n_data" /\ Flag(c, "fbl3n_data_exported")')
              /\ (lastOp'[3] = "sap" /\ AttemptNo < 4) =>
                    (pc' = "export_fbl3n_data_retry" /\ ~Flag(c, "fbl3n_data_exported")')
              /\ (lastOp'[3] = "sap" /\ AttemptNo = 4) =>
                    /\ pc' = "iter_end"
                    /\ c \in run'.failed
                    /\ ~Flag(c, "fbl3n_data_exported")']_vars

\* the 4th call of the export has raised SapRuntimeError and the handler has
\* returned False
BoundedFbl3nRetryWitness ==
    /\ lastOp[2] = "export:fbl3n"
    /\ lastOp[3] = "sap"
    /\ loc.nth = 2
    /\ pc = "iter_end"
    /\ ~Flag(lastOp[1], "fbl3n_data_exported")


\* C26: for every agreement of the head quarter data whose currency differs
\* from the local currency, with an exchange rate other than 1, the corrected
\* accrual on the first row of the agreement is the rate times the total open
\* accruals of the agreement, over all of its rows.
WholeAccrualConverted ==
    res.op = "calculate_hq_bonus_data" =>
        \A i \in 1..Len(res.val) :
            (/\ NotDuplicated(res.hq_data)[i]
             /\ res.ex_rate # 1
             /\ \A k \in 1..Len(res.hq_data) :
                   res.hq_data[k].Agreement = res.hq_data[i].Agreement =>
                       res.hq_data[k].Currency # res.loc_curr)
            => res.val[i].LC_Open_Accr =
                   Num(res.ex_rate * AccrualSum(Prepared(res.hq_data),
                                                res.hq_data[i].Agreement))


----------------------------------------------------------------------------
(* reconcile for company code 1001, run and run again on its checkpoint    *)

\* a table under the default index 0..n-1
Frame(rows) == [index |-> [i \in 1..Len(rows) |-> i - 1], rows |-> rows]

InitResume ==
    /\ InitPipeline
    /\ \E le_calcs \in ConsLeCalcs, hq_calcs \in ConsHqCalcs :
          res = [op |-> "none", le_calcs |-> le_calcs, hq_calcs |-> hq_calcs,
                 loc_calc_bin |-> <<>>, first |-> <<>>, again |-> <<>>]

\* the first run: the local calculation is consolidated, zsd25_loc_data_calculated
\* is saved and the consolidated local calculation is written to the cache
ReconcileFirst ==
    /\ res.op = "none"
    /\ LET val == consolidate_zsd25_data(res.le_calcs, res.hq_calcs)
       IN  res' = [res EXCEPT !.op = "reconcile",
                              !.first = val,
                              !.loc_calc_bin = store_to_binary(Frame(val.deduped))]
    /\ UNCHANGED <<file, ent>>
    /\ UNCHANGED recoveryFrame

\* the run on the checkpoint: the local calculation is read from the cache
\* and consolidated with the head quarter calculation
ReconcileAgain ==
    /\ res.op = "reconcile"
    /\ res' = [res EXCEPT !.op = "reconcile again",
                          !.again = consolidate_zsd25_data(
                                        read_binary_file(res.loc_calc_bin).rows,
                                        res.hq_calcs)]
    /\ UNCHANGED <<file, ent>>
    /\ UNCHANGED recoveryFrame

NextResume == ReconcileFirst \/ ReconcileAgain

SpecResume == InitResume /\ [][NextResume]_vars

\* C27: for company code 1001 the local calculation, the head quarter
\* comparison and the local comparison stored by a reconcile that finds
\* zsd25_loc_data_calculated set are those of the first run.
ResumedConsolidationEqualsFresh ==
    res.op = "reconcile again" => res.again = res.first


----------------------------------------------------------------------------
(* reconcile without head quarter data                                     *)

\* reconcile is at its calculations for a country whose checkpoint records
\* that the KONA or the head quarter ZSD25 search found no data
NoHqData ==
    /\ pc \in {"reconcile_hq", "reconcile_le", "reconcile_le_store"}
    /\ \/ Truthy(Get(Now, "se16_no_kona_data"))
       \/ Truthy(Get(Now, "zsd25_no_glob_data"))

\* C28: for a country of any company code whose checkpoint records no KONA
\* or no head quarter ZSD25 data, reconcile stores None as the head quarter
\* calculation and, unless the local calculation itself fails, a cache file is
\* missing or the process is killed, goes on to store the final summary.
NoHqDataCompletes ==
    [][NoHqData =>
          /\ (pc = "reconcile_hq" /\ abortedBy' # "crash") =>
                /\ pc' = "reconcile_le"
                /\ get_from_accum(accum', Cntry(Now), "glob_bonus_calcs", NoAcc).py = "None"
          /\ (pc = "reconcile_le" /\ lastOp'[3] # "raise"
                                  /\ abortedBy' \notin {"crash", "cache"}) =>
                pc' = "reconcile_le_store"
          /\ (pc = "reconcile_le_store" /\ abortedBy' # "crash") =>
                /\ pc' = "generate_report"
                /\ ~get_raises(accum', Cntry(Now), "final_summary", NoAcc)]_vars


----------------------------------------------------------------------------
(* The accumulator under the pipeline                                      *)

\* C29: in a run over distinct countries with non-empty account lists,
\* whatever the outcomes of the stages and the checkpoint the run resumes
\* on, no stage stores under a key of the accumulator that is already set or
\* fetches a key that is not set, and report generation finds every kind of
\* data it fetches.
AccumContractRespected ==
    /\ abortedBy # "accum"
    /\ pc = "generate_report" =>
          \A k \in ReportKinds : ~get_raises(accum, Cntry(Now), k, NoAcc)

\* the report of the second country of a run has been generated while the
\* accumulator holds the data of the first country as well
AccumContractRespectedWitness ==
    /\ pc = "send_notification"
    /\ lastOp[2] = "report"
    /\ lastOp[3] = "ok"
    /\ run.i = 2
    /\ \A k \in ReportKinds : ~get_raises(accum, run.cntrs[1], k, NoAcc)


----------------------------------------------------------------------------
(* The checkpoint records of the countries of a run                        *)

\* C30: once rec.initialize has returned, the checkpoint store holds a record
\* with every key for each country of the run, also when the durable record
\* was left by a run over other countries, and the first checkpoint read of
\* the country loop never fails.
EveryCountryHasRecord ==
    /\ pc # "stopped" =>
          \A n \in 1..Len(run.cntrs) :
              /\ has_state(ent, run.cntrs[n], "reconciled", NoAcc)
              /\ DOMAIN ent.data[run.cntrs[n]] = DOMAIN DefaultRecord(run.cntrs[n])
    /\ abortedBy # "recovery"

====
